---- MODULE Spec2Model ----
(***************************************************************************)
(* Nightlight: main and the stack and stats commands.  A model of the      *)
(* batch scheduler (PrepareBatches), of the batch loop of CmdStack, of     *)
(* stackBatch, of the semaphore-bounded worker pools of PreProcessLights,  *)
(* PostProcessLights and CmdStats, and of the command dispatch of main     *)
(* with the output files the commands write.                               *)
(*                                                                         *)
(* Go slices are modelled as functions over 0..n-1, so that every index    *)
(* in the model is the index of the source.  FITSImage objects live in     *)
(* heap and are referred to by address, so that two pointers to the same   *)
(* frame see the same object.  LogFatal ends the process at a position of  *)
(* FatalPcs, a Go panic at a position of PanicPcs.                         *)
(*                                                                         *)
(* SpecBatch runs the batch scheduler over all sizes, budgets, CPU counts  *)
(* and permutations, with stackBatch taken as one step; SpecSigma does     *)
(* the same over the values of the sigma bounds.  Spec runs the stack and  *)
(* stats commands on a few frames, goroutine by goroutine.  SpecMain runs  *)
(* main on every command word, output file by output file.                 *)
(*                                                                         *)
(* SpecCal runs PreProcessLights on frames, darks and flats of differing   *)
(* sizes; SpecWeight the noise weights of stackBatch; SpecSelect           *)
(* SelectReferenceFrame on its own; SpecServe the parameter and run        *)
(* handlers of the server; SpecColor and SpecTone the color and tone       *)
(* curve steps of PostProcessAndSaveRgbComposite; SpecBuf goroutines that  *)
(* acquire and release arrays of the float32 pool.                         *)
(***************************************************************************)
EXTENDS Integers, Naturals, Sequences, FiniteSets, TLC

(***************************************************************************)
(* Bounds of the model                                                     *)
(***************************************************************************)
\* largest number of input files of the batch scheduler runs
MaxFrames == 6
\* largest -stMemory value, in MiB
MaxMemory == 9
\* largest runtime.GOMAXPROCS(0)
MaxCpu == 3
\* the number of bits of an int64 of the model
IntBits == 5

(***************************************************************************)
(* Values                                                                  *)
(***************************************************************************)
\* a nil *FITSImage as calibration frame
NoImage == <<>>
\* Naxisn of the frames that are probed for their size
FrameDims == { <<512, 512>>, <<1024, 512>> }
\* the name of the input file at original index i
FileName(i) == 100 + i
\* the smaller of two numbers
Min(x, y) == IF x < y THEN x ELSE y
\* the sequence s if c, else none
When(c, s) == IF c THEN s ELSE <<>>
\* the empty slice
EmptySlice == [i \in {} |-> 0]
\* len(s) of a slice
SliceLen(s) == Cardinality(DOMAIN s)
\* s[from:to] of a slice, for from <= to
Slice(s, from, to) == [i \in 0..(to - from - 1) |-> s[from + i]]
\* the orderings of the elements of a set, as sequences
RECURSIVE Orderings(_)
Orderings(S) ==
    IF S = {} THEN { <<>> }
    ELSE UNION { { Append(p, x) : p \in Orderings(S \ {x}) } : x \in S }
\* the permutations of 0..n-1, as slices
Perms(n) == { [i \in 0..(n-1) |-> p[i + 1]] : p \in Orderings(0..(n-1)) }
\* sort.Ints on perm[from:to] in place; the values are distinct
SortIntsMutant(perm, from, to) == perm
SortInts(perm, from, to) ==
    [i \in DOMAIN perm |->
        IF i >= from /\ i < to
        THEN CHOOSE v \in { perm[k] : k \in from..(to-1) } :
                 Cardinality({ k \in from..(to-1) : perm[k] < v }) = i - from
        ELSE perm[i]]

VARIABLES
    \* ---- inputs of the command
    cmd,            \* the command word; "batches" and "sigmas": stack with stackBatch
                    \* taken as one step, under all and under few permutations
    fileNames,      \* the input file list
    stMemory,       \* stackP.Memory, MiB
    darkF,          \* Naxisn of the dark frame, or NoImage
    flatF,          \* Naxisn of the flat frame, or NoImage
    firstDims,      \* Naxisn of the first light frame on disk
    naxisn,         \* Naxisn of every light frame on disk, by file name
    cpu,            \* runtime.GOMAXPROCS(0), runtime.NumCPU()
    align,          \* postP.Align
    normHist,       \* postP.NormHist
    usmGain,        \* postP.UsmGain
    preFlags,       \* the settings of preP that PreProcessLight takes
    \* ---- PrepareBatches and the batch loop of CmdStack
    pc,             \* position of the main goroutine
    availableFrames,
    imageLevelParallelism,
    batchSize,
    numBatches,
    overallIDs,
    overallFileNames,
    b,              \* batch index of CmdStack's loop
    handed,         \* history: the (ids, fileNames) slices given to stackBatch
    \* ---- stackBatch
    heap,           \* the FITSImage objects, by address
    lights,         \* the slice of *FITSImage of the batch
    refFrame,       \* the reference frame pointer of CmdStack
    refLog,         \* history: the reference selections, (batch, frame)
    postLog,        \* history: the references passed to PostProcessLights
    stackLog,       \* history: the calls of the stacker, (batch, number of frames, reference)
    outWritten,     \* the output file was written
    \* ---- the worker pool of PreProcessLights, PostProcessLights, CmdStats
    pool,           \* "none", "pre", "post" or "stats"
    li,             \* loop index of the launch loop
    sem,            \* number of tokens in the channel sem
    drain,          \* loop index of the wait loop
    wk,             \* the goroutines, by loop index
    numErrors,      \* the variable numErrors of PostProcessLights
    \* ---- the fields of preP and stackP that the commands write
    preNormHist,    \* preP.NormHist
    sigmaLow,       \* stackP.SigmaLow
    sigmaHigh,      \* stackP.SigmaHigh
    \* ---- main and the output files of the commands
    handler,        \* the handler main has called for the command word
    outFlags,       \* which of the output patterns and names are set
    wstep,          \* the number of output files the command is past
    writeLog,       \* history: the calls of WriteFile and WriteJPGToFile, with their outcome
    \* ---- the stack of stacks of CmdStack
    stackFrames,    \* the running total of frames
    stackOps,       \* history: what was done to the variable stack, in order
    \* ---- one call of PreProcessLight, step by step
    ppArgs,         \* its parameters
    ppPc,           \* its position
    ppLight,        \* its local variable light
    \* ---- the noise weights of stackBatch
    wPc,            \* position in the block that prepares the weights
    wI,             \* the loop variable i
    wNoise,         \* lights[i].Stats.Noise, by index
    wData,          \* what EstimateNoise finds in lights[i].Data, by index
    minNoise,
    maxNoise,
    weights,
    \* ---- a call of SelectReferenceFrame
    selPc,          \* before the call or after it
    selHeap,        \* the frames the list points to
    selLights,      \* the parameter lights
    selRef,         \* the frame returned
    \* ---- the HTTP handlers of CmdServe
    inputs,         \* the global inputs, a slice: its length and its backing array
    colorParams,    \* the global colorParams
    toneCurveParams, \* the global toneCurveParams
    srvReqs,        \* the requests on parameters and inputs under way, by their number
    srvRuns,        \* the calls of postStackRun under way, by their number
    srvCalls,       \* history: the number of requests so far
    srvPosts,       \* history: the number of POST requests on parameters and inputs so far
    srvPosted,      \* history: the parameters at startup or as last posted with success
    srvReply,       \* the reply to the last GET of parameters, or none
    \* ---- PostProcessAndSaveRgbComposite
    cP,             \* the color parameters
    tcP,            \* the tone curve parameters
    lum,            \* the luminance image is given (not nil)
    colPc,          \* position in PostProcessAndSaveRgbComposite and its callees
    space,          \* the color space the data of rgb is in
    convLog,        \* history: the conversions of rgb, in order
    applied,        \* history: the operations that have changed rgb
    tcI,            \* the loop variable i of the automatic curves loop
    tcAdjusts,      \* history: the adjustments the loop has applied
    tcWarned,       \* history: the loop has logged that it did not converge
    abI,            \* AutoBalanceColors: i of the loop over SetBlackWhitePoints
    \* ---- the pool of []float32 arrays (helpers.go)
    poolFloat32,    \* poolFloat32.m: the sync.Pool of every size, or nil
    syncPools,      \* the sync.Pool objects made, with the arrays they hold
    gor,            \* the goroutines that use the pool, with their local variables
    installs,       \* history: how often a pool was stored in the map, by size
    poolCalls       \* history: the calls of the pool's functions so far

inputVars == <<cmd, fileNames, stMemory, darkF, flatF, firstDims, naxisn, cpu, align,
               normHist, usmGain, preFlags>>
batchVars == <<availableFrames, imageLevelParallelism, batchSize, numBatches,
               overallIDs, overallFileNames>>
frameVars == <<heap, lights, refFrame>>
logVars   == <<refLog, postLog, stackLog, outWritten>>
poolVars  == <<pool, li, sem, drain, wk>>
paramVars == <<preNormHist, sigmaLow, sigmaHigh>>
mainVars  == <<handler, outFlags, wstep, writeLog>>
accVars   == <<stackFrames, stackOps>>
preVars   == <<ppArgs, ppPc, ppLight>>
weightVars == <<wPc, wI, wNoise, wData, minNoise, maxNoise, weights>>
\* the variables of the parts that are looked at on their own
selectVars == <<selPc, selHeap, selLights, selRef>>
serveVars == <<inputs, colorParams, toneCurveParams, srvReqs, srvRuns, srvCalls, srvPosts, srvPosted,
               srvReply>>
colorVars == <<cP, tcP, lum, colPc, space, convLog, applied, tcI, tcAdjusts, tcWarned,
               abI>>
bufVars   == <<poolFloat32, syncPools, gor, installs, poolCalls>>
auxVars   == <<weightVars, selectVars, serveVars, colorVars, bufVars>>
\* the variables of the commands
coreVars  == <<inputVars, batchVars, pc, b, handed, frameVars, logVars, poolVars, numErrors,
               paramVars, mainVars, accVars, preVars>>
vars == <<coreVars, auxVars>>
\* what the steps of one part leave alone: the commands and the other parts
restOfWeight == <<coreVars, selectVars, serveVars, colorVars, bufVars>>
restOfSelect == <<coreVars, weightVars, serveVars, colorVars, bufVars>>
restOfColor  == <<coreVars, weightVars, selectVars, serveVars, bufVars>>
restOfBuf    == <<coreVars, weightVars, selectVars, serveVars, colorVars>>

numFrames == SliceLen(fileNames)
\* the input files
Files == { fileNames[i] : i \in DOMAIN fileNames }
\* all light frames on disk are of the size of the first
LightsOfOneSize == naxisn = [f \in Files |-> firstDims]

(***************************************************************************)
(* PrepareBatches (batch.go)                                               *)
(***************************************************************************)
\* width and height: from the dark, else from the flat, else from the first light
ProbeDims == IF darkF # NoImage THEN darkF ELSE IF flatF # NoImage THEN flatF ELSE firstDims
\* bytes of one frame in memory as float32
FrameBytes == ProbeDims[1] * ProbeDims[2] * 4
\* availableFrames, rounding down
AvailableFrames == (stMemory * 1024 * 1024) \div FrameBytes
\* the number of calibration frames held in memory
CalibrationSlots == (IF darkF # NoImage THEN 1 ELSE 0) + (IF flatF # NoImage THEN 1 ELSE 0)

\* numBatches=(numFrames+batchSize-1)/batchSize
CeilDiv(n, d) == (n + d - 1) \div d

\* One iteration of the for loop over imageLevelParallelism, from the values
\* (p, bs, nb) at the loop head. brk is TRUE when the iteration ends in break.
SizeIterMutant(p, bs, nb, n) ==
    LET bs1 == availableFrames - p - CalibrationSlots IN
    IF bs1 < 2 THEN [p |-> p - 1, bs |-> bs1, nb |-> nb, brk |-> FALSE]
    ELSE LET nb1 == CeilDiv(n, bs1)
             bs2 == IF nb1 > 1 THEN bs1 - 2 ELSE bs1
         IN  IF bs2 < 2 THEN [p |-> p - 1, bs |-> bs2, nb |-> nb1, brk |-> FALSE]
             ELSE [p |-> p, bs |-> bs2, nb |-> nb1, brk |-> TRUE]
SizeIter(p, bs, nb, n) ==
    LET bs1 == availableFrames - p - CalibrationSlots IN
    IF bs1 < 2 THEN [p |-> p - 1, bs |-> bs1, nb |-> nb, brk |-> FALSE]
    ELSE LET nb1 == CeilDiv(n, bs1)
             bs2 == IF nb1 > 1 THEN bs1 - 2 ELSE bs1
         IN  IF bs2 < 2 THEN [p |-> p - 1, bs |-> bs2, nb |-> nb1, brk |-> FALSE]
             ELSE IF bs2 < p THEN [p |-> p - 1, bs |-> bs2, nb |-> nb1, brk |-> FALSE]
             ELSE [p |-> p, bs |-> bs2, nb |-> nb1, brk |-> TRUE]


\* positions at which the process has ended
FatalPcs == {"fatal_pb", "fatal_align", "fatal_stack", "fatal_write", "fatal_input",
             "fatal_rgb"}
PanicPcs == {"panic_index", "panic_slice", "panic_noise", "panic_ref", "panic_post",
             "panic_lum"}
EndPcs   == FatalPcs \cup PanicPcs \cup {"done"}

\* without dark and flat the size is read from fileNames[0]
ProbesFirstLight == darkF = NoImage /\ flatF = NoImage

\* entry of PrepareBatches: sizes of the frames, memory and CPUs
PB_Probe ==
    /\ cmd \in {"stack", "batches", "sigmas"}
    /\ pc = "prepare"
    /\ IF ProbesFirstLight /\ numFrames = 0
       THEN /\ pc' = "panic_index"
            /\ UNCHANGED <<availableFrames, imageLevelParallelism>>
       ELSE /\ availableFrames' = AvailableFrames
            /\ imageLevelParallelism' = cpu
            /\ pc' = "pb_for"
    /\ UNCHANGED <<inputVars, auxVars, numErrors, preVars, accVars, paramVars, mainVars, batchSize, numBatches, overallIDs, overallFileNames,
                   b, handed, frameVars, logVars, poolVars>>

\* the for loop that calculates the batch size: one iteration, or the exit
PB_For ==
    /\ pc = "pb_for"
    /\ IF imageLevelParallelism >= 1
       THEN LET r == SizeIter(imageLevelParallelism, batchSize, numBatches, numFrames) IN
            /\ imageLevelParallelism' = r.p
            /\ batchSize' = r.bs
            /\ numBatches' = r.nb
            /\ pc' = IF r.brk THEN "pb_check" ELSE "pb_for"
       ELSE /\ pc' = "pb_check"
            /\ UNCHANGED <<imageLevelParallelism, batchSize, numBatches>>
    /\ UNCHANGED <<inputVars, auxVars, numErrors, preVars, accVars, paramVars, mainVars, availableFrames, overallIDs, overallFileNames,
                   b, handed, frameVars, logVars, poolVars>>

\* no execution path within the memory constraints: LogFatal
PB_Fatal ==
    /\ pc = "pb_check"
    /\ imageLevelParallelism < 1 \/ batchSize < 2
    /\ pc' = "fatal_pb"
    /\ UNCHANGED <<inputVars, auxVars, numErrors, preVars, accVars, paramVars, mainVars, batchVars, b, handed, frameVars, logVars, poolVars>>

\* the condition of the loop that evens out the size of the last batch
EvenOutMoreMutant(bs, nb, n) == bs * nb >= n
EvenOutMore(bs, nb, n) == (bs - 1) * nb >= n
\* a result of int64 arithmetic: it wraps around
WrapInt(x) == ((x + 2^(IntBits - 1)) % 2^IntBits) - 2^(IntBits - 1)
\* batchSize-- of that loop
EvenOutStepMutant(bs) == bs - 2
EvenOutStep(bs) == WrapInt(bs - 1)

\* even out the size of the last batch: one step of the loop, or its exit
PB_Even ==
    /\ \/ pc = "pb_check" /\ ~(imageLevelParallelism < 1 \/ batchSize < 2)
       \/ pc = "pb_even"
    /\ IF EvenOutMore(batchSize, numBatches, numFrames)
       THEN /\ batchSize' = EvenOutStep(batchSize)
            /\ pc' = "pb_even"
       ELSE /\ pc' = "pb_perm"
            /\ UNCHANGED batchSize
    /\ UNCHANGED <<inputVars, auxVars, numErrors, preVars, accVars, paramVars, mainVars, availableFrames, imageLevelParallelism, numBatches,
                   overallIDs, overallFileNames, b, handed, frameVars, logVars, poolVars>>

\* sort.Ints on every batch's segment of perm, batches i..numBatches-1
RECURSIVE SortBatches(_, _, _, _)
SortBatches(perm, i, nb, bs) ==
    IF i >= nb THEN perm
    ELSE LET from == i * bs
             to0  == (i + 1) * bs
             to   == IF to0 > SliceLen(perm) THEN SliceLen(perm) ELSE to0
         IN  SortBatches(SortInts(perm, from, to), i + 1, nb, bs)

\* the identity order
IdentityPerm(n) == [i \in 0..(n-1) |-> i]

\* The slice that the if block fills with old[perm[i]]. It is declared with :=
\* inside the block, a new variable that ends with the block.
ShuffledInBlock(old, perm) == [i \in DOMAIN old |-> old[perm[i]]]
\* The file names PrepareBatches returns: the return statement is outside the
\* block and names the parameter fileNames.
ReturnedFileNames(old, perm, nb) == old

\* rand.Perm(n): any permutation
RandPerm(n) == Perms(n)

\* the permutation of the inputs and the return
PB_Perm ==
    /\ pc = "pb_perm"
    /\ IF numBatches > 1
       THEN \E perm \in RandPerm(numFrames) :
               overallIDs' = SortBatches(perm, 0, numBatches, batchSize)
       ELSE overallIDs' = IdentityPerm(numFrames)
    /\ overallFileNames' = ReturnedFileNames(fileNames, overallIDs', numBatches)
    /\ b' = 0
    /\ pc' = "loop"
    /\ UNCHANGED <<inputVars, auxVars, numErrors, preVars, accVars, paramVars, mainVars, availableFrames, imageLevelParallelism, batchSize,
                   numBatches, handed, frameVars, logVars, poolVars>>

(***************************************************************************)
(* CmdStack (cmdstack.go): the batch loop                                  *)
(***************************************************************************)
BatchStartOffset(bb, bs) == bb * bs
BatchEndOffset(bb, bs, n) == IF (bb + 1) * bs > n THEN n ELSE (bb + 1) * bs

\* the batch being stacked: the last one cut
CurBatch == handed[Len(handed)]

\* head of the loop: cut the batch out of the overall ids and file names
BatchCut ==
    /\ pc = "loop"
    /\ b < numBatches
    /\ LET from == BatchStartOffset(b, batchSize)
           to   == BatchEndOffset(b, batchSize, numFrames)
       IN  IF from > to \/ to > numFrames \/ from < 0
           THEN /\ pc' = "panic_slice"
                /\ UNCHANGED handed
           ELSE /\ handed' = Append(handed, [from |-> from, to |-> to,
                                             ids |-> Slice(overallIDs, from, to),
                                             fileNames |-> Slice(overallFileNames, from, to)])
                /\ pc' = "sb_enter"
    /\ UNCHANGED <<inputVars, auxVars, numErrors, preVars, accVars, paramVars, mainVars, batchVars, b, frameVars, logVars, poolVars>>

\* a value of -stSigLow and -stSigHigh that gives the bounds
GivenSigma == 2
\* the values of -stSigLow and -stSigHigh: the default -1, zero, a bound
SigmaInputs == {-1, 0, GivenSigma}
\* the bounds FindSigmasAndStack can find for the clipping percentages
FoundSigmas == {0, GivenSigma}

\* "Use sigma bounds (given or from prior batch) for stacking"
UseGivenSigmasMutant(lo, hi) == lo >= 0 \/ hi >= 0
UseGivenSigmas(lo, hi) == lo >= 0 /\ hi >= 0
\* stackP.SigmaLow and stackP.SigmaHigh after FindSigmasAndStack: they are
\* assigned the bounds it returns
SigmaWrittenMutant(old, found) == old
SigmaWritten(old, found) == found

\* The stacking step of stackBatch on n frames with reference ref: Stack with
\* the bounds of stackP, or else FindSigmasAndStack, which finds the bounds.
StackLights(n, ref) ==
    \E fl \in FoundSigmas, fh \in FoundSigmas :
       LET given == UseGivenSigmas(sigmaLow, sigmaHigh) IN
       /\ stackLog' = Append(stackLog,
                          [batch |-> b, n |-> n, ref |-> ref, search |-> ~given,
                           inLow |-> sigmaLow, inHigh |-> sigmaHigh,
                           low  |-> IF given THEN sigmaLow ELSE fl,
                           high |-> IF given THEN sigmaHigh ELSE fh])
       /\ sigmaLow'  = IF given THEN sigmaLow ELSE SigmaWritten(sigmaLow, fl)
       /\ sigmaHigh' = IF given THEN sigmaHigh ELSE SigmaWritten(sigmaHigh, fh)

\* "Update stack of stacks" is done with StackIncremental
UsesIncrementalMutant(nb) == nb >= 1
UsesIncremental(nb) == nb > 1
\* batchFrames of the batch just cut: batchEndOffset-batchStartOffset
BatchFrames == CurBatch.to - CurBatch.from
\* The end of the loop body: with more than one batch the batch stack is
\* merged into the stack of stacks with weight batchFrames, which is added
\* to stackFrames; else the batch stack is the stack.
UpdateStackOfStacks ==
    IF UsesIncremental(numBatches)
    THEN /\ stackOps' = Append(stackOps, [op |-> "StackIncremental", batch |-> b,
                                          weight |-> BatchFrames])
         /\ stackFrames' = stackFrames + BatchFrames
    ELSE /\ stackOps' = Append(stackOps, [op |-> "stack=batch", batch |-> b,
                                          weight |-> 0])
         /\ UNCHANGED stackFrames

\* after the last batch: with more than one batch the stack of stacks is
\* finalized; then the overall stack is written to the output file
LoopExit ==
    /\ pc = "loop"
    /\ b >= numBatches
    /\ \E ok \in BOOLEAN :
          /\ pc' = IF ok THEN "done" ELSE "fatal_write"
          /\ outWritten' = ok
    /\ stackOps' = stackOps
                    \o When(UsesIncremental(numBatches),
                            <<[op |-> "StackIncrementalFinalize", batch |-> b,
                               weight |-> stackFrames]>>)
                    \o <<[op |-> "WriteFile", batch |-> b, weight |-> 0]>>
    /\ UNCHANGED <<inputVars, auxVars, numErrors, preVars, stackFrames, paramVars, mainVars, batchVars, b, handed, frameVars, refLog, postLog,
                   stackLog, poolVars>>

(***************************************************************************)
(* Frames                                                                  *)
(***************************************************************************)
\* histogram normalization modes (HistoNormMode)
HNMNone == 0
HNMLocScale == 1
HNMLocBlack == 2
HNMAuto == 3
\* -alignT, the limit of the alignment residual
AlignT == 1
\* the residuals aligner.Align can return: at the limit, above the limit
Residuals == {AlignT, AlignT + 1}
\* star count and HFR that star detection can find in a frame
StarKinds == { [stars |-> 0, hfr |-> 0], [stars |-> 2, hfr |-> 1] }

\* the nil *FITSImage
NilPtr == 0
\* address of the FITSImage that PreProcessLight creates for a file
Addr(fileName) == fileName
\* address of the FITSImage that Project creates from the frame at ptr
ProjAddr(ptr) == ptr + 100
\* the FITSImage PreProcessLight returns: light.ID=id, stars and HFR detected
NewLight(id, fileName, kind) ==
    [ID |-> id, file |-> fileName, stars |-> kind.stars, hfr |-> kind.hfr,
     starList |-> Addr(fileName), trans |-> "unset", residual |-> 0,
     norm |-> "none", projected |-> FALSE, usm |-> FALSE, hasStats |-> TRUE]
\* h with the object o at address a
Alloc(h, a, o) == [x \in DOMAIN h \cup {a} |-> IF x = a THEN o ELSE h[x]]
\* h without the object at address a, which nothing refers to any more
Free(h, a) == [x \in DOMAIN h \ {a} |-> h[x]]
\* the heap
NoHeap == [x \in {} |-> 0]

\* score>refScore on float32 quotients num/den, den > 0
ScoreGreaterMutant(s, t) == s[1] * t[2] >= t[1] * s[2]
ScoreGreater(s, t) == s[1] * t[2] > t[1] * s[2]
\* score of a frame: stars divided by HFR, or 0
Score(o) == IF o.stars = 0 \/ o.hfr = 0 THEN <<0, 1>> ELSE <<o.stars, o.hfr>>

\* SelectReferenceFrame: the loop from index i on, with the best so far
RECURSIVE SelectLoop(_, _, _, _, _)
SelectLoop(h, ls, i, ref, refScore) ==
    IF i >= SliceLen(ls) THEN ref
    ELSE IF ls[i] = NilPtr THEN SelectLoop(h, ls, i + 1, ref, refScore)
    ELSE IF ScoreGreater(Score(h[ls[i]]), refScore)
         THEN SelectLoop(h, ls, i + 1, ls[i], Score(h[ls[i]]))
         ELSE SelectLoop(h, ls, i + 1, ref, refScore)
SelectReferenceFrame(h, ls) == SelectLoop(h, ls, 0, NilPtr, <<-1, 1>>)

\* stackBatch selects a reference unless one was provided from prior batches
NeedsReferenceMutant(al, nh, ref) == al # 0 \/ nh # 0
NeedsReference(al, nh, ref) == (al # 0 \/ nh # 0) /\ ref = NilPtr

\* residual>p.AlignThresh
AboveThreshMutant(residual, thresh) == FALSE
AboveThresh(residual, thresh) == residual > thresh

\* aligner.RefStars: NewAligner keeps the star list of the reference frame
AlignerRefStars(h, alignRef) ==
    [stars |-> h[alignRef].stars, starList |-> h[alignRef].starList]

\* "Not required for reference frame itself": the aligner's reference stars
\* and the frame's stars have the same length and the same first element
IsReferenceItselfMutant(h, alignRef, light) == FALSE
IsReferenceItself(h, alignRef, light) ==
    /\ AlignerRefStars(h, alignRef).stars = h[light].stars
    /\ AlignerRefStars(h, alignRef).starList = h[light].starList

\* "No stars - skip alignment and warn": light.Stars is nil or empty
NoStarsMutant(o) == FALSE
NoStars(o) == o.stars = 0

\* the calls of postProcessLight that can return an error: CalcExtendedStats
\* after the black point was shifted, light.Project, CalcExtendedStats of the
\* unsharp masking; or none of them does. With its error CalcExtendedStats
\* returns statistics or nil, which is assigned to light.Stats.
LibFailures == {"none", "stats", "stats_nil", "project", "usm", "usm_nil"}

\* "light.Stats, err=CalcExtendedStats(...)" where the call returns an error
StatsAfterError(h, light, f) ==
    [h EXCEPT ![light].hasStats = f \notin {"stats_nil", "usm_nil"}]

\* "apply unsharp masking, if requested" on the outcome o so far, where the
\* library call f returns an error
UnsharpMasked(o, f) ==
    IF o.err \/ usmGain <= 0 THEN o
    ELSE IF f \in {"usm", "usm_nil"}
    THEN [o EXCEPT !.heap = StatsAfterError(o.heap, o.res, f), !.res = NilPtr, !.err = TRUE]
    ELSE [o EXCEPT !.heap = [o.heap EXCEPT ![o.res].usm = TRUE]]

\* postProcessLight(aligner, histoRef, light, p) on heap h, where alignRef is
\* the frame the aligner was built from (NilPtr: no aligner), r is the
\* residual aligner.Align finds if it is called, and f is the library call
\* that returns an error if it is called.
\* Result: the heap, the returned frame, whether err is set, the residual
\* found (-1: not aligned), and whether a nil pointer was dereferenced.
PostProcessLightOf(h, alignRef, histoRef, light, r, f) ==
    IF \/ light = NilPtr
       \/ /\ normHist \in {HNMLocScale, HNMLocBlack}
          /\ (histoRef = NilPtr \/ ~h[histoRef].hasStats)
    THEN [heap |-> h, res |-> NilPtr, err |-> FALSE, resid |-> -1, panic |-> TRUE]
    ELSE
    LET h1 == CASE normHist = HNMLocScale -> [h EXCEPT ![light].norm = "locscale"]
                [] normHist = HNMLocBlack -> [h EXCEPT ![light].norm = "locblack"]
                [] OTHER -> h
        ident == [h1 EXCEPT ![light].trans = "identity"]
        kept == [heap |-> ident, res |-> light, err |-> FALSE, resid |-> -1, panic |-> FALSE]
    IN  IF normHist = HNMLocBlack /\ f \in {"stats", "stats_nil"}
        THEN [heap |-> StatsAfterError(h1, light, f), res |-> NilPtr, err |-> TRUE,
              resid |-> -1, panic |-> FALSE]
        ELSE IF alignRef = NilPtr \/ AlignerRefStars(h1, alignRef).stars = 0
        THEN UnsharpMasked(kept, f)
        ELSE IF IsReferenceItself(h1, alignRef, light)
        THEN UnsharpMasked(kept, f)
        ELSE IF NoStars(h1[light])
        THEN UnsharpMasked(kept, f)
        ELSE IF AboveThresh(r, AlignT)
        THEN [heap |-> h1, res |-> NilPtr, err |-> TRUE, resid |-> r, panic |-> FALSE]
        ELSE LET h2 == [h1 EXCEPT ![light].trans = "aligned", ![light].residual = r]
                 pr == [h2[light] EXCEPT !.projected = TRUE, !.starList = ProjAddr(light)]
             IN  IF f = "project"
                 THEN [heap |-> h2, res |-> NilPtr, err |-> TRUE, resid |-> r,
                       panic |-> FALSE]
                 ELSE UnsharpMasked([heap |-> Alloc(h2, ProjAddr(light), pr),
                                     res |-> ProjAddr(light), err |-> FALSE,
                                     resid |-> r, panic |-> FALSE], f)

\* "Remove nils from lights": the loop from index i on, o frames kept so far
RECURSIVE CompactLoop(_, _, _)
CompactLoop(ls, i, o) ==
    IF i >= SliceLen(ls) THEN Slice(ls, 0, o)
    ELSE IF ls[i] # NilPtr
         THEN CompactLoop([ls EXCEPT ![o] = ls[i]], i + 1, o + 1)
         ELSE CompactLoop(ls, i + 1, o)
RemoveNils(ls) == CompactLoop(ls, 0, 0)

\* Stack and FindSigmasAndStack return an error when there is no frame to combine
StackFails(ls) == SliceLen(ls) = 0

\* stackBatch and the rest of the loop body, taken as one step. The frames
\* are not looked at: whether they load, which of them is the reference, how
\* many of them postProcessLight keeps are choices. A frame that does not
\* load is a nil entry of lights, and the loop over the noise panics; the
\* reference is selected among the frames of the batch, unless one is there
\* from a batch before; PostProcessLights is fatal without stars in the
\* reference and panics on a reference without statistics; a frame is
\* dropped by the residual test and by the errors of the library calls;
\* without a frame left the stacking is fatal.
\* StubEnds: the ways stackBatch can end before it stacks n frames, with the
\* reference ref of the batches before.
StubEnds(n, ref) ==
    LET selects == NeedsReference(align, normHist, ref)
        statsCanFail == normHist = HNMLocBlack \/ usmGain > 0
    IN  (IF n > 0 THEN {"panic_noise"} ELSE {})
        \cup (IF selects /\ n = 0 THEN {"panic_ref"} ELSE {})
        \cup (IF align # 0 /\ (~selects \/ n > 0) THEN {"fatal_align"} ELSE {})
        \cup (IF /\ normHist \in {HNMLocScale, HNMLocBlack}
                 /\ statsCanFail
                 /\ n > 1 \/ (~selects /\ n > 0)
              THEN {"panic_post"} ELSE {})
\* the reference stackBatch goes on with: one of the frames of the batch, or
\* the one of a batch before
StubRefs(fn, ref) ==
    IF NeedsReference(align, normHist, ref) THEN { Addr(fn[i]) : i \in DOMAIN fn } ELSE {ref}
\* the numbers of frames PostProcessLights can leave of n
StubKept(n) ==
    IF align # 0 \/ normHist = HNMLocBlack \/ usmGain > 0 THEN 0..n ELSE {n}

BatchStub ==
    /\ cmd \in {"batches", "sigmas"}
    /\ pc = "sb_enter"
    /\ LET n == SliceLen(CurBatch.fileNames)
           selects == NeedsReference(align, normHist, refFrame)
       IN  \/ /\ \E e \in StubEnds(n, refFrame) : pc' = e
              /\ UNCHANGED <<b, refFrame, refLog, stackLog, accVars, sigmaLow, sigmaHigh>>
           \/ \E ref \in StubRefs(CurBatch.fileNames, refFrame), k \in StubKept(n) :
                 /\ refFrame' = ref
                 /\ refLog' = IF selects THEN Append(refLog, [batch |-> b, ref |-> ref])
                               ELSE refLog
                 /\ StackLights(k, ref)
                 /\ IF k = 0
                    THEN /\ pc' = "fatal_stack"
                         /\ UNCHANGED <<b, accVars>>
                    ELSE /\ UpdateStackOfStacks
                         /\ b' = b + 1
                         /\ pc' = "loop"
    /\ UNCHANGED <<inputVars, auxVars, numErrors, preVars, preNormHist, mainVars, batchVars, handed,
                   heap, lights, postLog, outWritten, poolVars>>

(***************************************************************************)
(* The worker pool: PreProcessLights, PostProcessLights, CmdStats          *)
(***************************************************************************)
\* the call of PostProcessLights that is running: the last one
CurPost == postLog[Len(postLog)]
\* the commands that combine color channels
RgbCommands == {"rgb", "argb", "lrgb"}
\* a goroutine that was not started yet
IdleWorker == [st |-> "idle", id |-> 0, fileName |-> 0, arg |-> NilPtr,
               res |-> NilPtr, err |-> FALSE, resid |-> -1, seen |-> 0]
\* cap(sem)
PoolCap == IF pool = "stats" THEN cpu ELSE imageLevelParallelism
\* the number of iterations of the launch loop
PoolLen == SliceLen(wk)
\* sem <- true can proceed: the channel holds fewer than cap tokens
CanSendMutant(s, c) == TRUE
CanSend(s, c) == s < c
\* the number of tokens the wait loop sends
WaitCountMutant(c) == c - 1
WaitCount(c) == c
\* the index of lights a goroutine stores to: its parameter i, not the loop variable
SlotIndexMutant(i, loopIndex) == IF loopIndex < PoolLen THEN loopIndex ELSE 0
SlotIndex(i, loopIndex) == i
\* goroutines that hold a frame: started and not yet through their deferred <-sem
Busy == { i \in DOMAIN wk : wk[i].st \in {"go", "run", "res", "inc", "stored"} }

\* the pool starts: sem is made, no goroutine runs
StartPool(kind, n) ==
    /\ pool' = kind
    /\ li' = 0
    /\ sem' = 0
    /\ drain' = 0
    /\ wk' = [i \in 0..(n-1) |-> IdleWorker]
    /\ pc' = "launch"

\* launch loop: sem <- true, then go func(i, ...)
Launch ==
    /\ pc = "launch"
    /\ li < PoolLen
    /\ CanSend(sem, PoolCap)
    /\ sem' = sem + 1
    /\ wk' = [wk EXCEPT ![li] =
                 IF pool = "post"
                 THEN [IdleWorker EXCEPT !.st = "go", !.arg = lights[li]]
                 ELSE IF pool = "pre"
                 THEN [IdleWorker EXCEPT !.st = "go", !.id = CurBatch.ids[li],
                                         !.fileName = CurBatch.fileNames[li]]
                 ELSE [IdleWorker EXCEPT !.st = "go", !.id = li, !.fileName = fileNames[li]]]
    /\ li' = li + 1
    /\ UNCHANGED <<inputVars, auxVars, numErrors, preVars, accVars, paramVars, mainVars, batchVars, pc, b, handed, frameVars, logVars, pool, drain>>

\* the launch loop ends, the wait loop begins
LaunchEnd ==
    /\ pc = "launch"
    /\ li >= PoolLen
    /\ pc' = "drain"
    /\ drain' = 0
    /\ UNCHANGED <<inputVars, auxVars, numErrors, preVars, accVars, paramVars, mainVars, batchVars, b, handed, frameVars, logVars, pool, li, sem, wk>>

\* wait loop: sem <- true, cap(sem) times
Drain ==
    /\ pc = "drain"
    /\ drain < WaitCount(PoolCap)
    /\ CanSend(sem, PoolCap)
    /\ sem' = sem + 1
    /\ drain' = drain + 1
    /\ UNCHANGED <<inputVars, auxVars, numErrors, preVars, accVars, paramVars, mainVars, batchVars, pc, b, handed, frameVars, logVars, pool, li, wk>>

\* the pool function returns to its caller
PoolReturn ==
    /\ pc = "drain"
    /\ drain >= WaitCount(PoolCap)
    /\ pc' = CASE pool = "pre" -> IF cmd \in RgbCommands THEN "rgb_ref" ELSE "sb_noise"
               [] pool = "post" -> IF cmd \in RgbCommands THEN "rgb_check" ELSE "sb_compact"
               [] OTHER -> "done"
    /\ UNCHANGED <<inputVars, auxVars, numErrors, preVars, accVars, paramVars, mainVars, batchVars, b, handed, frameVars, logVars, poolVars>>

\* a goroutine runs PreProcessLight (pre, stats) or postProcessLight (post)
WorkerCompute(i) ==
    /\ pc \notin EndPcs
    /\ wk[i].st = "go"
    /\ IF pool = "post"
       THEN \E r \in Residuals, f \in LibFailures :
              LET alignRef == IF align # 0 THEN CurPost.alignRef ELSE NilPtr
                  o == PostProcessLightOf(heap, alignRef, CurPost.histoRef, wk[i].arg, r, f)
              IN  IF o.panic
                  THEN /\ pc' = "panic_post"
                       /\ UNCHANGED <<heap, wk>>
                  ELSE /\ heap' = o.heap
                       /\ wk' = [wk EXCEPT ![i].st = "res", ![i].res = o.res,
                                           ![i].err = o.err, ![i].resid = o.resid]
                       /\ UNCHANGED pc
       ELSE /\ \/ wk' = [wk EXCEPT ![i].st = "res", ![i].err = TRUE]
                  /\ UNCHANGED heap
               \/ \E kind \in StarKinds :
                    /\ heap' = Alloc(heap, Addr(wk[i].fileName),
                                     NewLight(wk[i].id, wk[i].fileName, kind))
                    /\ wk' = [wk EXCEPT ![i].st = "res", ![i].res = Addr(wk[i].fileName)]
            /\ UNCHANGED pc
    /\ UNCHANGED <<inputVars, auxVars, numErrors, preVars, accVars, paramVars, mainVars, batchVars, b, handed, lights, refFrame, logVars,
                   pool, li, sem, drain>>

\* "if res!=lightP { lightP.Data=nil; lights[i]=res }" of PostProcessLights:
\* the frame is garbage then, unless it is one of the reference frames
StoreResult(i) ==
    IF wk[i].res # wk[i].arg
    THEN /\ heap' = IF wk[i].arg \in {CurPost.alignRef, CurPost.histoRef}
                    THEN heap ELSE Free(heap, wk[i].arg)
         /\ lights' = [lights EXCEPT ![SlotIndex(i, li)] = wk[i].res]
    ELSE UNCHANGED <<heap, lights>>

\* A goroutine logs its error, or stores its result. In PostProcessLights an
\* error is counted with numErrors++, which no lock protects: the goroutine
\* reads numErrors here and writes it in a step of its own.
WorkerStore(i) ==
    /\ pc \notin EndPcs
    /\ wk[i].st = "res"
    /\ CASE pool = "pre" ->
              /\ wk' = [wk EXCEPT ![i].st = "stored"]
              /\ lights' = IF wk[i].err THEN lights
                           ELSE [lights EXCEPT ![SlotIndex(i, li)] = wk[i].res]
              /\ UNCHANGED heap
         [] pool = "post" ->
              IF wk[i].err
              THEN /\ wk' = [wk EXCEPT ![i].st = "inc", ![i].seen = numErrors]
                   /\ UNCHANGED <<heap, lights>>
              ELSE /\ wk' = [wk EXCEPT ![i].st = "stored"]
                   /\ StoreResult(i)
         [] OTHER ->
              /\ wk' = [wk EXCEPT ![i].st = "stored"]
              /\ heap' = IF wk[i].err THEN heap ELSE Free(heap, wk[i].res)
              /\ UNCHANGED lights
    /\ UNCHANGED <<inputVars, auxVars, numErrors, preVars, accVars, paramVars, mainVars, batchVars, pc, b, handed, refFrame, logVars,
                   pool, li, sem, drain>>

\* the second half of numErrors++: the goroutine writes the value it has
\* read, plus one; then it stores its result
WorkerCount(i) ==
    /\ pc \notin EndPcs
    /\ wk[i].st = "inc"
    /\ numErrors' = wk[i].seen + 1
    /\ wk' = [wk EXCEPT ![i].st = "stored"]
    /\ StoreResult(i)
    /\ UNCHANGED <<inputVars, auxVars, preVars, accVars, paramVars, mainVars, batchVars, pc, b, handed, refFrame, logVars,
                   pool, li, sem, drain>>

\* the number of tokens in sem after <-sem
ReceivedMutant(s) == s
Received(s) == s - 1

\* the deferred <-sem of a goroutine
WorkerRelease(i) ==
    /\ pc \notin EndPcs
    /\ wk[i].st = "stored"
    /\ sem > 0
    /\ sem' = Received(sem)
    /\ wk' = [wk EXCEPT ![i].st = "done"]
    /\ UNCHANGED <<inputVars, auxVars, numErrors, preVars, accVars, paramVars, mainVars, batchVars, pc, b, handed, frameVars, logVars, pool, li, drain>>

(***************************************************************************)
(* CmdStats, stackBatch                                                    *)
(***************************************************************************)
\* CmdStack sets the default parameters for this command: auto becomes
\* location and scale, in preP
CmdStackDefaults ==
    /\ cmd \in {"stack", "batches", "sigmas"}
    /\ pc = "start"
    /\ preNormHist' = IF preNormHist = HNMAuto THEN HNMLocScale ELSE preNormHist
    /\ pc' = "prepare"
    /\ UNCHANGED <<inputVars, auxVars, numErrors, preVars, accVars, sigmaLow, sigmaHigh, mainVars, batchVars, b, handed,
                   frameVars, logVars, poolVars>>

\* CmdStats: the default parameters, then the preprocessing of all files
StatsStart ==
    /\ cmd = "stats"
    /\ pc = "start"
    /\ preNormHist' = IF preNormHist = HNMAuto THEN HNMNone ELSE preNormHist
    /\ StartPool("stats", numFrames)
    /\ UNCHANGED <<inputVars, auxVars, numErrors, preVars, accVars, sigmaLow, sigmaHigh, mainVars, batchVars, b, handed, frameVars, logVars>>

\* stackBatch calls PreProcessLights: lights is made, all slots nil
PreStart ==
    /\ cmd = "stack"
    /\ pc = "sb_enter"
    /\ lights' = [i \in DOMAIN CurBatch.fileNames |-> NilPtr]
    /\ StartPool("pre", SliceLen(CurBatch.fileNames))
    /\ UNCHANGED <<inputVars, auxVars, numErrors, preVars, accVars, paramVars, mainVars, batchVars, b, handed, heap, refFrame, logVars>>

\* the average noise of the input frames: l.Stats of every entry of lights
SB_Noise ==
    /\ pc = "sb_noise"
    /\ pc' = IF \E i \in DOMAIN lights : lights[i] = NilPtr THEN "panic_noise" ELSE "sb_select"
    /\ UNCHANGED <<inputVars, auxVars, numErrors, preVars, accVars, paramVars, mainVars, batchVars, b, handed, frameVars, logVars, poolVars>>

\* select the reference frame, unless one was provided from prior batches
SB_Select ==
    /\ pc = "sb_select"
    /\ IF NeedsReference(align, normHist, refFrame)
       THEN LET r == SelectReferenceFrame(heap, lights) IN
            IF r = NilPtr
            THEN /\ pc' = "panic_ref"
                 /\ UNCHANGED <<refFrame, refLog>>
            ELSE /\ refFrame' = r
                 /\ refLog' = Append(refLog, [batch |-> b, ref |-> r])
                 /\ pc' = "sb_post"
       ELSE /\ pc' = "sb_post"
            /\ UNCHANGED <<refFrame, refLog>>
    /\ UNCHANGED <<inputVars, auxVars, numErrors, preVars, accVars, paramVars, mainVars, batchVars, b, handed, heap, lights, postLog, stackLog,
                   outWritten, poolVars>>

\* PostProcessLights cannot build its aligner: alignment is on and the
\* reference is nil or has no star detections
CannotAlignMutant(h, al, alignRef) == al # 0 /\ alignRef = NilPtr
CannotAlign(h, al, alignRef) == al # 0 /\ (alignRef = NilPtr \/ h[alignRef].stars = 0)

\* The entry of PostProcessLights(alignRef, histoRef, lights, ...): the
\* aligner is built, numErrors is 0, sem is made
PostProcessLights(alignRef, histoRef) ==
    IF CannotAlign(heap, align, alignRef)
    THEN /\ pc' = "fatal_align"
         /\ UNCHANGED <<postLog, poolVars, numErrors>>
    ELSE /\ postLog' = Append(postLog, [batch |-> b, alignRef |-> alignRef,
                                        histoRef |-> histoRef])
         /\ numErrors' = 0
         /\ StartPool("post", SliceLen(lights))

\* stackBatch calls PostProcessLights(refFrame, refFrame, lights, ...)
PostStart ==
    /\ pc = "sb_post"
    /\ PostProcessLights(refFrame, refFrame)
    /\ UNCHANGED <<inputVars, auxVars, preVars, accVars, paramVars, mainVars, batchVars, b, handed, frameVars, refLog, stackLog, outWritten>>

\* remove nils from lights
SB_Compact ==
    /\ pc = "sb_compact"
    /\ lights' = RemoveNils(lights)
    /\ pc' = "sb_stack"
    /\ UNCHANGED <<inputVars, auxVars, numErrors, preVars, accVars, paramVars, mainVars, batchVars, b, handed, heap, refFrame, logVars, poolVars>>

\* stack the post-processed lights
SB_Stack ==
    /\ pc = "sb_stack"
    /\ StackLights(SliceLen(lights), refFrame)
    /\ pc' = IF StackFails(lights) THEN "fatal_stack" ELSE "sb_return"
    /\ UNCHANGED <<inputVars, auxVars, numErrors, preVars, accVars, preNormHist, mainVars, batchVars, b, handed, frameVars, refLog, postLog,
                   outWritten, poolVars>>

\* stackBatch returns; the rest of the loop body updates the stack of stacks
\* and frees the frames of the batch
BatchFinish ==
    /\ pc = "sb_return"
    /\ UpdateStackOfStacks
    /\ lights' = EmptySlice
    /\ heap' = [x \in DOMAIN heap \cap {refFrame} |-> heap[x]]
    /\ b' = b + 1
    /\ pc' = "loop"
    /\ pool' = "none"
    /\ li' = 0
    /\ sem' = 0
    /\ drain' = 0
    /\ wk' = EmptySlice
    /\ UNCHANGED <<inputVars, auxVars, numErrors, preVars, paramVars, mainVars, batchVars, handed, refFrame, logVars>>

(***************************************************************************)
(* main (main.go) and the output files of the commands                     *)
(***************************************************************************)
\* the command words of the usage text
CommandWords == {"stats", "stack", "rgb", "argb", "lrgb", "serve", "legal", "version", "help"}
\* flag.Args() is empty
NoArgs == ""
\* args[0]: a command word, "?", a word that is no command, or none
Words == CommandWords \cup {"?", "bogus", NoArgs}
\* the commands that take input files
FileCommands == {"stats", "stack", "rgb", "argb", "lrgb"}
\* no handler was called yet
NoHandler == "none"
\* no output pattern is set: only the output file of the command is written
NoOutFlags == [pre |-> FALSE, stars |-> FALSE, back |-> FALSE, post |-> FALSE,
               batch |-> FALSE, jpg |-> FALSE]
\* the settings of -pre, -stars, -back with -backGrid, -post, -batch and -jpg
OutFlagSets == [pre : BOOLEAN, stars : BOOLEAN, back : BOOLEAN, post : BOOLEAN,
                batch : BOOLEAN, jpg : BOOLEAN]

\* switch args[0]: the handler of a word
Dispatch(w) ==
    CASE w = "stats"   -> "CmdStats"
      [] w = "stack"   -> "CmdStack"
      [] w = "rgb"     -> "CmdRgb"
      [] w = "argb"    -> "CmdLrgb(false)"
      [] w = "lrgb"    -> "CmdLrgb(true)"
      [] w = "legal"   -> "CmdLegal"
      [] w = "version" -> "Version"
      [] w \in {"help", "?"} -> "Usage"
      [] OTHER -> "Unknown"

\* main from the check for a command to the call of its handler
MainDispatch ==
    /\ pc = "main"
    /\ IF cmd = NoArgs
       THEN /\ handler' = "Usage"
            /\ pc' = "done"
       ELSE IF cmd \in FileCommands /\ numFrames = 0
       THEN /\ pc' = "fatal_input"
            /\ UNCHANGED handler
       ELSE /\ handler' = Dispatch(cmd)
            /\ pc' = IF cmd \in FileCommands THEN "run_check" ELSE "done"
    /\ UNCHANGED <<inputVars, auxVars, numErrors, preVars, accVars, paramVars, outFlags, wstep, writeLog, batchVars, b, handed,
                   frameVars, logVars, poolVars>>

\* the number of input files CmdRgb and CmdLrgb need; 0: any number
NeededFiles(h) ==
    CASE h = "CmdRgb" -> 3
      [] h \in {"CmdLrgb(false)", "CmdLrgb(true)"} -> 4
      [] OTHER -> 0

\* CmdRgb, CmdLrgb: "Need exactly three (four) input files"
RunCheck ==
    /\ pc = "run_check"
    /\ pc' = IF NeededFiles(handler) # 0 /\ numFrames # NeededFiles(handler)
             THEN "fatal_input" ELSE "run"
    /\ UNCHANGED <<inputVars, auxVars, numErrors, preVars, accVars, paramVars, mainVars, batchVars, b, handed,
                   frameVars, logVars, poolVars>>

\* one call that writes an output file: the kind of file, the frame or batch
Site(kind, id) == [site |-> kind, id |-> id]
\* the files written for frame i while it is preprocessed: the background in
\* PreProcessLight, then the frame and its stars in PreProcessLights
PreSitesOf(i, f) ==
    When(f.back, <<Site("back", i)>>) \o When(f.pre, <<Site("pre", i)>>)
                                      \o When(f.stars, <<Site("stars", i)>>)
\* the same in the loop of CmdStats
StatsSitesOf(i, f) ==
    When(f.back, <<Site("back", i)>>) \o When(f.pre, <<Site("stats_pre", i)>>)
                                      \o When(f.stars, <<Site("stats_stars", i)>>)
\* the file written for frame i in PostProcessLights
PostSitesOf(i, f) == When(f.post, <<Site("post", i)>>)
\* the files of the frames i..n-1
RECURSIVE FrameSites(_, _, _, _)
FrameSites(kind, i, n, f) ==
    IF i >= n THEN <<>>
    ELSE (CASE kind = "pre" -> PreSitesOf(i, f)
            [] kind = "stats" -> StatsSitesOf(i, f)
            [] OTHER -> PostSitesOf(i, f)) \o FrameSites(kind, i + 1, n, f)
\* The output files a handler writes, in the order of a run in which every
\* frame is processed without error, one frame after the other, and the
\* frames of CmdStack form one batch.
Sites(h, n, f) ==
    CASE h = "CmdStats" -> FrameSites("stats", 0, n, f)
      [] h = "CmdStack" -> FrameSites("pre", 0, n, f) \o FrameSites("post", 0, n, f)
                           \o When(f.batch, <<Site("batch", 0)>>) \o <<Site("out", 0)>>
      [] h \in {"CmdRgb", "CmdLrgb(false)", "CmdLrgb(true)"} ->
                           FrameSites("pre", 0, n, f) \o FrameSites("post", 0, n, f)
                           \o <<Site("rgb", 0)>> \o When(f.jpg, <<Site("jpg", 0)>>)
      [] OTHER -> <<>>

\* the calls whose result is assigned to err; the result of the other calls
\* is dropped
AssignsErr(kind) == kind \notin {"stars", "jpg"}
\* err as "if err!=nil { LogFatalf(...) }" finds it after a write: the result
\* of the call if it was assigned, else the nil of the call before
ErrAfterWrite(kind, ok) == IF AssignsErr(kind) THEN ~ok ELSE FALSE

\* the handler writes its next output file; the write succeeds or fails
WriteOutput ==
    /\ pc = "run"
    /\ wstep < Len(Sites(handler, numFrames, outFlags))
    /\ \E ok \in BOOLEAN :
          LET st == Sites(handler, numFrames, outFlags)[wstep + 1] IN
          /\ writeLog' = Append(writeLog, [site |-> st.site, id |-> st.id, ok |-> ok])
          /\ IF ErrAfterWrite(st.site, ok)
             THEN /\ pc' = "fatal_write"
                  /\ UNCHANGED wstep
             ELSE /\ wstep' = wstep + 1
                  /\ UNCHANGED pc
    /\ UNCHANGED <<inputVars, auxVars, numErrors, preVars, accVars, paramVars, handler, outFlags, batchVars, b, handed,
                   frameVars, logVars, poolVars>>

\* the handler returns to main, which ends
RunEnd ==
    /\ pc = "run"
    /\ wstep >= Len(Sites(handler, numFrames, outFlags))
    /\ pc' = "done"
    /\ UNCHANGED <<inputVars, auxVars, numErrors, preVars, accVars, paramVars, mainVars, batchVars, b, handed,
                   frameVars, logVars, poolVars>>

(***************************************************************************)
(* CmdRgb, CmdLrgb (preprocess.go)                                         *)
(***************************************************************************)
\* the entries of lights from index from on
LightsFrom(from) == { lights[i] : i \in { j \in DOMAIN lights : j >= from } }

\* CmdRgb and CmdLrgb to their call of PreProcessLights: the defaults, the
\* number of files, the ids, the parallelism, and the settings they fix for
\* the channels: the value range normalized, no bad pixel removal
RgbStart ==
    /\ cmd \in RgbCommands
    /\ pc = "start"
    /\ preNormHist' = IF preNormHist = HNMAuto THEN HNMNone ELSE preNormHist
    /\ IF numFrames # NeededFiles(Dispatch(cmd))
       THEN /\ pc' = "fatal_input"
            /\ UNCHANGED <<preFlags, imageLevelParallelism, handed, lights, poolVars>>
       ELSE /\ imageLevelParallelism' = Min(cpu, numFrames)
            /\ preFlags' = [preFlags EXCEPT !.normRange = 1, !.bpSigLow = 0, !.bpSigHigh = 0]
            /\ handed' = <<[from |-> 0, to |-> numFrames, ids |-> IdentityPerm(numFrames),
                            fileNames |-> fileNames]>>
            /\ lights' = [i \in DOMAIN fileNames |-> NilPtr]
            /\ StartPool("pre", numFrames)
    /\ UNCHANGED <<cmd, fileNames, stMemory, darkF, flatF, firstDims, naxisn, cpu, align,
                   normHist, usmGain, auxVars, numErrors, preVars, accVars, sigmaLow, sigmaHigh, mainVars,
                   availableFrames, batchSize, numBatches, overallIDs, overallFileNames,
                   b, heap, refFrame, logVars>>

\* The references and the call of PostProcessLights. CmdRgb picks one
\* reference frame for both uses; CmdLrgb aligns to the luminance channel,
\* whose ID it logs, and normalizes to the color channel of the lowest
\* location.
RgbPost ==
    /\ pc = "rgb_ref"
    /\ IF cmd = "rgb"
       THEN IF align # 0 \/ preNormHist # 0
            THEN LET r == SelectReferenceFrame(heap, lights) IN
                 IF r = NilPtr
                 THEN /\ pc' = "panic_ref"
                      /\ UNCHANGED <<refFrame, postLog, poolVars, numErrors>>
                 ELSE /\ refFrame' = r
                      /\ PostProcessLights(r, r)
            ELSE /\ UNCHANGED refFrame
                 /\ PostProcessLights(NilPtr, NilPtr)
       ELSE LET r == IF align # 0 THEN lights[0] ELSE NilPtr IN
            IF align # 0 /\ lights[0] = NilPtr
            THEN /\ pc' = "panic_lum"
                 /\ UNCHANGED <<refFrame, postLog, poolVars, numErrors>>
            ELSE IF preNormHist # 0
                 THEN IF NilPtr \in LightsFrom(1)
                      THEN /\ pc' = "panic_ref"
                           /\ UNCHANGED <<refFrame, postLog, poolVars, numErrors>>
                      ELSE \E h \in LightsFrom(1) :
                              /\ refFrame' = r
                              /\ PostProcessLights(r, h)
                 ELSE /\ refFrame' = r
                      /\ PostProcessLights(r, NilPtr)
    /\ UNCHANGED <<inputVars, auxVars, preVars, accVars, paramVars, mainVars, batchVars, b, handed,
                   heap, lights, refLog, stackLog, outWritten>>

\* "if numErrors>0 { LogFatal(...) }", then the channels are combined and the
\* result is written
RgbCheck ==
    /\ pc = "rgb_check"
    /\ IF numErrors > 0
       THEN /\ pc' = "fatal_rgb"
            /\ UNCHANGED outWritten
       ELSE \E ok \in BOOLEAN :
               /\ pc' = IF ok THEN "done" ELSE "fatal_write"
               /\ outWritten' = ok
    /\ UNCHANGED <<inputVars, auxVars, numErrors, preVars, accVars, paramVars, mainVars, batchVars, b, handed,
                   frameVars, refLog, postLog, stackLog, poolVars>>

(***************************************************************************)
(* PreProcessLight (preprocess.go), step by step                           *)
(***************************************************************************)
\* a calibration frame: nil (or without pixels), of the size of the light, of
\* another size
CalibKinds == {"none", "same", "other"}
\* a value of -bpSigLow and -bpSigHigh that is not 0
SomeSigma == 3
\* the parameters of PreProcessLight that decide its steps
PreArgSets == [dark : CalibKinds, flat : CalibKinds, debayer : BOOLEAN,
               bpSigLow : {0, SomeSigma}, bpSigHigh : {0, SomeSigma},
               binning : {1, 2}, backGrid : {0, 1}, backPattern : BOOLEAN,
               normRange : {0, 1}]
\* the settings of preP that CmdStack hands on to every call: -debayer,
\* -bpSigLow, -bpSigHigh, -binning, -backGrid, -backPattern, -normRange
PreFlagSets == [debayer : BOOLEAN, bpSigLow : {0, SomeSigma}, bpSigHigh : {0, SomeSigma},
                binning : {1, 2}, backGrid : {0, 1}, backPattern : BOOLEAN,
                normRange : {0, 1}]
\* the settings are of no account: PreProcessLight is not looked at step by step
NoPreFlags == [debayer |-> FALSE, bpSigLow |-> 0, bpSigHigh |-> 0, binning |-> 1,
               backGrid |-> 0, backPattern |-> FALSE, normRange |-> 0]
\* the parameters of the call for a light, from the settings and the
\* calibration frames
CallArgs(flags, dark, flat) ==
    [dark |-> dark, flat |-> flat, debayer |-> flags.debayer,
     bpSigLow |-> flags.bpSigLow, bpSigHigh |-> flags.bpSigHigh,
     binning |-> flags.binning, backGrid |-> flags.backGrid,
     backPattern |-> flags.backPattern, normRange |-> flags.normRange]
\* The frame before it is read. pix counts the operations that have changed
\* the pixels; statsAt and starsAt are the values of pix at which Stats and
\* Stars were computed, -1 if they were not; ops are the operations so far.
NoLight == [pix |-> 0, statsAt |-> -1, starsAt |-> -1, ops |-> <<>>]
\* an operation that changes the pixels
ChangePixels(l, op) == [l EXCEPT !.pix = l.pix + 1, !.ops = Append(l.ops, op)]
\* light.Stats, err=CalcExtendedStats(light.Data, ...)
StatsComputed(l) == [l EXCEPT !.statsAt = l.pix, !.ops = Append(l.ops, "stats")]
\* light.Stars, _, light.HFR=FindStars(light.Data, ...)
StarsFound(l) == [l EXCEPT !.starsAt = l.pix, !.ops = Append(l.ops, "stars")]
\* What a step of PreProcessLight leaves alone. The calls in flight are
\* numbered: ppArgs, ppPc and ppLight hold the parameters, the position and
\* the local variable light of each.
PreFrame == UNCHANGED <<inputVars, auxVars, numErrors, accVars, paramVars, mainVars, batchVars, b,
                        handed, frameVars, logVars, poolVars, ppArgs>>
\* call c moves to position p with light l
PreMove(c, p, l) ==
    /\ ppPc' = [ppPc EXCEPT ![c] = p]
    /\ ppLight' = [ppLight EXCEPT ![c] = l]
    /\ UNCHANGED pc
\* call c is at position p and the process has not ended
PreAt(c, p) == pc \notin EndPcs /\ ppPc[c] = p

\* load the light frame
PP_Load(c) ==
    /\ PreAt(c, "load")
    /\ \E ok \in BOOLEAN :
          IF ok THEN PreMove(c, "dark", [NoLight EXCEPT !.ops = <<"read">>])
          ELSE PreMove(c, "error", ppLight[c])
    /\ PreFrame

\* apply dark frame if available
PP_Dark(c) ==
    /\ PreAt(c, "dark")
    /\ CASE ppArgs[c].dark = "none" -> PreMove(c, "flat", ppLight[c])
         [] ppArgs[c].dark = "other" -> PreMove(c, "error", ppLight[c])
         [] OTHER -> PreMove(c, "flat", ChangePixels(ppLight[c], "dark"))
    /\ PreFrame

\* apply flat frame if available
PP_Flat(c) ==
    /\ PreAt(c, "flat")
    /\ CASE ppArgs[c].flat = "none" -> PreMove(c, "debayer", ppLight[c])
         [] ppArgs[c].flat = "other" -> PreMove(c, "error", ppLight[c])
         [] OTHER -> PreMove(c, "debayer", ChangePixels(ppLight[c], "flat"))
    /\ PreFrame

\* debayer color filter array data if desired
PP_Debayer(c) ==
    /\ PreAt(c, "debayer")
    /\ IF ppArgs[c].debayer
       THEN \E ok \in BOOLEAN :
               IF ok THEN PreMove(c, "badpixels", ChangePixels(ppLight[c], "debayer"))
               ELSE PreMove(c, "error", ppLight[c])
       ELSE PreMove(c, "badpixels", ppLight[c])
    /\ PreFrame

\* remove bad pixels if flagged
PP_BadPixels(c) ==
    /\ PreAt(c, "badpixels")
    /\ PreMove(c, "binning",
               IF ppArgs[c].bpSigLow # 0 /\ ppArgs[c].bpSigHigh # 0
               THEN ChangePixels(ppLight[c], "badpixels") ELSE ppLight[c])
    /\ PreFrame

\* apply binning if desired
PP_Binning(c) ==
    /\ PreAt(c, "binning")
    /\ PreMove(c, "stats",
               IF ppArgs[c].binning > 1 THEN ChangePixels(ppLight[c], "binning") ELSE ppLight[c])
    /\ PreFrame

\* calculate stats and find stars
PP_Stats(c) ==
    /\ PreAt(c, "stats")
    /\ \E ok \in BOOLEAN :
          IF ok THEN PreMove(c, "background", StarsFound(StatsComputed(ppLight[c])))
          ELSE PreMove(c, "error", ppLight[c])
    /\ PreFrame

\* automatic background extraction, if desired; then stats and stars again.
\* When the background cannot be written LogFatalf ends the process.
PP_Background(c) ==
    /\ PreAt(c, "background")
    /\ IF ppArgs[c].backGrid > 0
       THEN \E written \in BOOLEAN, ok \in BOOLEAN :
               IF ppArgs[c].backPattern /\ ~written
               THEN /\ ppPc' = [ppPc EXCEPT ![c] = "fatal"]
                    /\ pc' = "fatal_write"
                    /\ UNCHANGED ppLight
               ELSE IF ok
               THEN PreMove(c, "normalize",
                            StarsFound(StatsComputed(ChangePixels(ppLight[c], "background"))))
               ELSE PreMove(c, "error", ChangePixels(ppLight[c], "background"))
       ELSE PreMove(c, "normalize", ppLight[c])
    /\ PreFrame

\* normalize value range if desired, unless the image is of uniform intensity
PP_Normalize(c) ==
    /\ PreAt(c, "normalize")
    /\ IF ppArgs[c].normRange > 0
       THEN \E uniform \in BOOLEAN, ok \in BOOLEAN :
               IF uniform
               THEN PreMove(c, "return", ppLight[c])
               ELSE IF ok
               THEN PreMove(c, "return", StatsComputed(ChangePixels(ppLight[c], "normalize")))
               ELSE PreMove(c, "error", ChangePixels(ppLight[c], "normalize"))
       ELSE PreMove(c, "return", ppLight[c])
    /\ PreFrame

(***************************************************************************)
(* PreProcessLights with the calls of PreProcessLight step by step         *)
(***************************************************************************)
\* EqualInt32Slice(x, y): the two slices hold the same numbers
EqualInt32Slice(x, y) == x = y
\* What a calibration frame is to a light of the given Naxisn: not there (nil
\* or without pixels), of the same size, of another size
CalibKindMutant(calF, dims) == IF calF = NoImage THEN "none" ELSE "same"
CalibKind(calF, dims) ==
    IF calF = NoImage THEN "none"
    ELSE IF EqualInt32Slice(calF, dims) THEN "same" ELSE "other"

\* the calls without call c
Returned(f, c) == [k \in DOMAIN f \ {c} |-> f[k]]

\* A goroutine of PreProcessLights calls PreProcessLight(id, fileName, darkF,
\* flatF, ...) with the settings of the run. As many calls as the semaphore
\* has slots are under way at a time; their steps interleave.
WorkerEnter(i) ==
    /\ pc \notin EndPcs
    /\ pool = "pre"
    /\ wk[i].st = "go"
    /\ ppArgs' = (i :> CallArgs(preFlags, CalibKind(darkF, naxisn[wk[i].fileName]),
                                CalibKind(flatF, naxisn[wk[i].fileName]))) @@ ppArgs
    /\ ppLight' = (i :> NoLight) @@ ppLight
    /\ ppPc' = (i :> "load") @@ ppPc
    /\ wk' = [wk EXCEPT ![i].st = "run"]
    /\ UNCHANGED <<inputVars, auxVars, numErrors, accVars, paramVars, mainVars, batchVars, pc, b,
                   handed, frameVars, logVars, pool, li, sem, drain>>

\* PreProcessLight returns to the goroutine: (nil, err) or (&light, nil)
WorkerLeave(i) ==
    /\ pc \notin EndPcs
    /\ wk[i].st = "run"
    /\ i \in DOMAIN ppPc
    /\ ppPc[i] \in {"error", "return"}
    /\ IF ppPc[i] = "error"
       THEN /\ wk' = [wk EXCEPT ![i].st = "res", ![i].err = TRUE]
            /\ UNCHANGED heap
       ELSE \E kind \in StarKinds :
               /\ heap' = Alloc(heap, Addr(wk[i].fileName),
                                NewLight(wk[i].id, wk[i].fileName, kind))
               /\ wk' = [wk EXCEPT ![i].st = "res", ![i].res = Addr(wk[i].fileName)]
    /\ ppArgs' = Returned(ppArgs, i)
    /\ ppLight' = Returned(ppLight, i)
    /\ ppPc' = Returned(ppPc, i)
    /\ UNCHANGED <<inputVars, auxVars, numErrors, accVars, paramVars, mainVars, batchVars, pc, b,
                   handed, lights, refFrame, logVars, pool, li, sem, drain>>

(***************************************************************************)
(* stackBatch (cmdstack.go): the weights of noise weighted stacking        *)
(***************************************************************************)
\* a float32 that is a quotient of integers, an infinity or not a number
Quot(num, den) ==
    IF den = 0 THEN IF num = 0 THEN [kind |-> "nan", num |-> 0, den |-> 1]
                    ELSE [kind |-> "inf", num |-> IF num > 0 THEN 1 ELSE -1, den |-> 1]
    ELSE IF den < 0 THEN [kind |-> "num", num |-> -num, den |-> -den]
    ELSE [kind |-> "num", num |-> num, den |-> den]
\* 1/(1+4*q) for the float32 q
WeightOfQuot(q) ==
    CASE q.kind = "nan" -> q
      [] q.kind = "inf" -> [kind |-> "num", num |-> 0, den |-> 1]
      [] OTHER -> Quot(q.den, q.den + 4 * q.num)
\* weights[i]=1/(1+4*(lights[i].Stats.Noise-minNoise)/(maxNoise-minNoise))
NoiseWeight(n, mn, mx) == WeightOfQuot(Quot(n - mn, mx - mn))
\* math.MaxFloat32, above every noise value
MaxFloat32 == 1000

\* no weights are prepared
NoWeights ==
    /\ wPc = "idle"
    /\ wI = 0
    /\ wNoise = EmptySlice
    /\ wData = EmptySlice
    /\ minNoise = 0
    /\ maxNoise = 0
    /\ weights = EmptySlice

\* minNoise, maxNoise:=float32(math.MaxFloat32), float32(-math.MaxFloat32)
W_Enter ==
    /\ wPc = "enter"
    /\ minNoise' = MaxFloat32
    /\ maxNoise' = -MaxFloat32
    /\ wI' = 0
    /\ wPc' = "minmax"
    /\ UNCHANGED <<restOfWeight, wNoise, wData, weights>>

\* the first loop: the smallest and the largest lights[i].Stats.Noise
W_MinMax ==
    /\ wPc = "minmax"
    /\ IF wI < SliceLen(wNoise)
       THEN /\ minNoise' = IF wNoise[wI] < minNoise THEN wNoise[wI] ELSE minNoise
            /\ maxNoise' = IF wNoise[wI] > maxNoise THEN wNoise[wI] ELSE maxNoise
            /\ wI' = wI + 1
            /\ UNCHANGED <<wPc, weights>>
       ELSE /\ weights' = [i \in DOMAIN wNoise |-> Quot(0, 1)]
            /\ wI' = 0
            /\ wPc' = "weights"
            /\ UNCHANGED <<minNoise, maxNoise>>
    /\ UNCHANGED <<restOfWeight, wNoise, wData>>

\* the second loop: the noise is estimated again, then the weight is taken
W_Weight ==
    /\ wPc = "weights"
    /\ IF wI < SliceLen(wNoise)
       THEN /\ wNoise' = [wNoise EXCEPT ![wI] = wData[wI]]
            /\ weights' = [weights EXCEPT ![wI] = NoiseWeight(wData[wI], minNoise, maxNoise)]
            /\ wI' = wI + 1
            /\ UNCHANGED wPc
       ELSE /\ wPc' = "done"
            /\ UNCHANGED <<wI, wNoise, weights>>
    /\ UNCHANGED <<restOfWeight, wData, minNoise, maxNoise>>

(***************************************************************************)
(* SelectReferenceFrame (preprocess.go) on any list of frames              *)
(***************************************************************************)
\* no call of SelectReferenceFrame is looked at
NoSelect ==
    /\ selPc = "idle"
    /\ selHeap = NoHeap
    /\ selLights = EmptySlice
    /\ selRef = NilPtr

\* refFrame, refScore=SelectReferenceFrame(lights)
Sel_Call ==
    /\ selPc = "call"
    /\ selRef' = SelectReferenceFrame(selHeap, selLights)
    /\ selPc' = "returned"
    /\ UNCHANGED <<restOfSelect, selHeap, selLights>>

(***************************************************************************)
(* CmdServe: the handlers of the parameter endpoints and of /stack/run.    *)
(* Every request is served by a goroutine of its own, and the handlers and *)
(* the runs of CmdStack work on the same global objects without a lock: a  *)
(* step of a request is one access to a field of these objects.            *)
(***************************************************************************)
\* largest number of elements of a list of input files that is posted
MaxServeFiles == 2
\* largest number of input files on the command line of the server
MaxServeInputs == 5
\* largest number of requests the server gets
MaxServeCalls == 3
\* largest number of POST requests on parameters and inputs among them
MaxServePosts == 1

\* the objects the endpoints hold, with the fields that are looked at
StackParams == [SigmaLow |-> sigmaLow, SigmaHigh |-> sigmaHigh, Memory |-> stMemory]
PreProcessParams == [NormHist |-> preNormHist]
PostProcessParams == [NormHist |-> normHist, Align |-> align, UsmGain |-> usmGain]
ServedParams == [stack |-> StackParams, pre |-> PreProcessParams, post |-> PostProcessParams,
                 color |-> colorParams, tone |-> toneCurveParams]
\* a value of NormHist that is none of the four modes
OtherMode == 4
\* the JSON bodies of the POST requests: objects with some of the fields, each
\* with one of the values of the field
Bodies(values) ==
    UNION { { body \in [F -> UNION { values[f] : f \in F }] :
                \A f \in F : body[f] \in values[f] }
          : F \in SUBSET DOMAIN values }
StackBodies == Bodies([SigmaLow |-> {GivenSigma}, SigmaHigh |-> {-1, GivenSigma},
                       Memory |-> {0}])
PreBodies == Bodies([NormHist |-> {HNMNone, HNMLocScale, HNMLocBlack, HNMAuto, OtherMode}])
PostBodies == Bodies([NormHist |-> {HNMNone, HNMLocScale, HNMLocBlack, HNMAuto},
                      Align |-> {1}, UsmGain |-> {1}])
ColorBodies == Bodies([Scnr |-> {0, 1}])
ToneCurveBodies == Bodies([Gamma |-> {1, 2}])
\* the object after the fields of the body in stored were decoded into it
Bound(obj, body, stored) ==
    [f \in DOMAIN obj |-> IF f \in stored THEN body[f] ELSE obj[f]]

\* the zero value of a string
NoName == 0
\* a file name that is not among those of the command line
NewName == FileName(MaxServeInputs)
\* the elements of the JSON arrays posted as inputs: a string, or a value of
\* another type
InputElems == { [str |-> TRUE, name |-> NewName], [str |-> FALSE, name |-> NoName] }
InputBodies == UNION { [1..m -> InputElems] : m \in 0..MaxServeFiles }
\* the slice of the file names fn: its length and its backing array
SliceOf(fn) ==
    [len |-> SliceLen(fn),
     arr |-> [j \in 0..(MaxServeInputs - 1) |-> IF j \in DOMAIN fn THEN fn[j] ELSE NoName]]
\* The decoder at element i of the array: the slice is made to hold the
\* element, which shows what the backing array holds there; a string is
\* stored, a value of another type is passed over.
ElementDecoded(s, i, el) ==
    [len |-> IF i >= s.len THEN i + 1 ELSE s.len,
     arr |-> IF el.str THEN [s.arr EXCEPT ![i] = el.name] ELSE s.arr]
\* The decoder at the end of an array of i elements: a longer slice is cut,
\* and for the empty array a new empty slice is made.
ArrayDecoded(s, i) ==
    IF i = 0 THEN SliceOf(EmptySlice)
    ELSE IF i < s.len THEN [s EXCEPT !.len = i]
    ELSE s

\* no reply was given
NoReply == [endpoint |-> "none", value |-> 0, posted |-> 0]
\* the server does not run
NoServe ==
    /\ inputs = SliceOf(EmptySlice)
    /\ colorParams = [Scnr |-> 0]
    /\ toneCurveParams = [Gamma |-> 1]
    /\ srvReqs = <<>>
    /\ srvRuns = <<>>
    /\ srvCalls = 0
    /\ srvPosts = 0
    /\ srvPosted = [stack |-> 0, pre |-> 0, post |-> 0]
    /\ srvReply = NoReply
\* the process has not ended
Serving == pc = "serve"
\* bound: the number of requests the server gets, one less when it was
\* started on a list of more than MaxServeFiles files
ServeCalls == IF numFrames > MaxServeFiles THEN MaxServeCalls - 1 ELSE MaxServeCalls
\* a request arrives; its number
Arrives == Serving /\ srvCalls < ServeCalls
Arriving == srvCalls + 1
\* a POST on parameters or inputs arrives
Posts ==
    /\ Arrives
    /\ srvPosts < MaxServePosts
    /\ srvCalls' = srvCalls + 1
    /\ srvPosts' = srvPosts + 1
\* a request of another kind arrives
Calls ==
    /\ Arrives
    /\ srvCalls' = srvCalls + 1
    /\ UNCHANGED srvPosts
\* the request k is over
Served(reqs, k) == [j \in DOMAIN reqs \ {k} |-> reqs[j]]
\* what every step of the server leaves alone: the commands
ServeFrame == UNCHANGED <<cmd, fileNames, darkF, flatF, firstDims, naxisn, cpu, preFlags,
                          batchVars, b, handed, frameVars, logVars, poolVars, numErrors,
                          mainVars, accVars, preVars, weightVars, selectVars, colorVars,
                          bufVars>>
\* the field f of the object of endpoint e is assigned v
Assigned(e, f, v) ==
    /\ sigmaLow'    = IF e = "stack" /\ f = "SigmaLow"  THEN v ELSE sigmaLow
    /\ sigmaHigh'   = IF e = "stack" /\ f = "SigmaHigh" THEN v ELSE sigmaHigh
    /\ stMemory'    = IF e = "stack" /\ f = "Memory"    THEN v ELSE stMemory
    /\ preNormHist' = IF e = "pre"   /\ f = "NormHist"  THEN v ELSE preNormHist
    /\ normHist'    = IF e = "post"  /\ f = "NormHist"  THEN v ELSE normHist
    /\ align'       = IF e = "post"  /\ f = "Align"     THEN v ELSE align
    /\ usmGain'     = IF e = "post"  /\ f = "UsmGain"   THEN v ELSE usmGain
    /\ colorParams' = IF e = "color" THEN [colorParams EXCEPT ![f] = v] ELSE colorParams
    /\ toneCurveParams' = IF e = "tone" THEN [toneCurveParams EXCEPT ![f] = v]
                          ELSE toneCurveParams
\* no field of the objects is assigned
ParamsKept == UNCHANGED <<sigmaLow, sigmaHigh, stMemory, preNormHist, normHist, align,
                          usmGain, colorParams, toneCurveParams>>
\* The POST of body on endpoint e is answered: with status 200 its fields are
\* what a GET is to return from now on
Answered(e, body, ok) ==
    srvPosted' = IF ok /\ e \in DOMAIN srvPosted
                 THEN [srvPosted EXCEPT ![e] = Bound(srvPosted[e], body, DOMAIN body)]
                 ELSE srvPosted

\* c.BindJSON(obj) in the handler of a POST on endpoint e: the decoder
\* assigns the fields of the body to the object in place, one after the
\* other in the order of the body. A field of the wrong type is passed over
\* and the reply is 400 after the other fields were assigned; a body that is
\* no JSON assigns nothing. body holds the fields that are assigned. The
\* step is the first assignment; a body of one field is answered with it.
PostBegins(e, bodies) ==
    /\ Posts
    /\ \E body \in bodies, ok \in BOOLEAN :
          IF DOMAIN body = {}
          THEN /\ ParamsKept
               /\ Answered(e, body, ok)
               /\ UNCHANGED srvReqs
          ELSE \E f \in DOMAIN body :
                  /\ Assigned(e, f, body[f])
                  /\ IF DOMAIN body = {f}
                     THEN /\ Answered(e, body, ok)
                          /\ UNCHANGED srvReqs
                     ELSE /\ srvReqs' = (Arriving :> [kind |-> "post", endpoint |-> e,
                                                       body |-> body, got |-> <<>>,
                                                       left |-> DOMAIN body \ {f},
                                                       i |-> 0, ok |-> ok]) @@ srvReqs
                          /\ UNCHANGED srvPosted
    /\ UNCHANGED <<pc, inputs, srvRuns, srvReply>>
    /\ ServeFrame

\* postStackParams: c.BindJSON(stackParams)
Srv_PostStackParams == PostBegins("stack", StackBodies)
\* postPreProcessParams: c.BindJSON(preProcessParams)
Srv_PostPreProcessParams == PostBegins("pre", PreBodies)
\* postPostProcessParams: c.BindJSON(postProcessParams)
Srv_PostPostProcessParams == PostBegins("post", PostBodies)
\* postColorParams: c.BindJSON(colorParams)
Srv_PostColorParams == PostBegins("color", ColorBodies)
\* postToneCurveParams: c.BindJSON(toneCurveParams)
Srv_PostToneCurveParams == PostBegins("tone", ToneCurveBodies)

\* the decoder of the POST k assigns the next field; after the last one the
\* handler replies
Srv_BindJSON(k) ==
    /\ Serving
    /\ srvReqs[k].kind = "post"
    /\ LET q == srvReqs[k] IN
       \E f \in q.left :
          /\ Assigned(q.endpoint, f, q.body[f])
          /\ IF q.left = {f}
             THEN /\ Answered(q.endpoint, q.body, q.ok)
                  /\ srvReqs' = Served(srvReqs, k)
             ELSE /\ srvReqs' = [srvReqs EXCEPT ![k].left = q.left \ {f}]
                  /\ UNCHANGED srvPosted
    /\ UNCHANGED <<pc, inputs, srvRuns, srvCalls, srvPosts, srvReply>>
    /\ ServeFrame

\* postPreProcessInputs: c.BindJSON(&inputs). The decoder works on the slice
\* in place, element by element. The step is the first element, or the end
\* of the empty array; a body that is no JSON array changes nothing.
Srv_PostPreProcessInputs ==
    /\ Posts
    /\ \/ UNCHANGED <<inputs, srvReqs>>
       \/ \E body \in InputBodies :
             IF Len(body) = 0
             THEN /\ inputs' = ArrayDecoded(inputs, 0)
                  /\ UNCHANGED srvReqs
             ELSE /\ inputs' = ElementDecoded(inputs, 0, body[1])
                  /\ srvReqs' = (Arriving :> [kind |-> "inputs", endpoint |-> "inputs",
                                              body |-> body, got |-> <<>>, left |-> {},
                                              i |-> 1,
                                              ok |-> \A j \in DOMAIN body : body[j].str])
                                 @@ srvReqs
    /\ ParamsKept
    /\ UNCHANGED <<pc, srvRuns, srvPosted, srvReply>>
    /\ ServeFrame
\* the decoder of the POST k of inputs is at the next element, or at the end
\* of the array, after which the handler replies
Srv_BindInputs(k) ==
    /\ Serving
    /\ srvReqs[k].kind = "inputs"
    /\ LET q == srvReqs[k] IN
       IF q.i < Len(q.body)
       THEN /\ inputs' = ElementDecoded(inputs, q.i, q.body[q.i + 1])
            /\ srvReqs' = [srvReqs EXCEPT ![k].i = q.i + 1]
       ELSE /\ inputs' = ArrayDecoded(inputs, q.i)
            /\ srvReqs' = Served(srvReqs, k)
    /\ ParamsKept
    /\ UNCHANGED <<pc, srvRuns, srvCalls, srvPosts, srvPosted, srvReply>>
    /\ ServeFrame

\* the reply of a GET on endpoint e with the object value
Replied(e, value) == srvReply' = [endpoint |-> e, value |-> value, posted |-> srvPosted[e]]
\* A GET on endpoint e: c.JSON(http.StatusOK, *obj) copies the object, field
\* by field, while a run or a POST may write it. The step is the first field
\* read; an object of one field is answered with it.
GetBegins(e) ==
    /\ Calls
    /\ \E f \in DOMAIN ServedParams[e] :
          IF DOMAIN ServedParams[e] = {f}
          THEN /\ Replied(e, ServedParams[e])
               /\ UNCHANGED srvReqs
          ELSE /\ srvReqs' = (Arriving :> [kind |-> "get", endpoint |-> e, body |-> <<>>,
                                           got |-> f :> ServedParams[e][f],
                                           left |-> DOMAIN ServedParams[e] \ {f},
                                           i |-> 0, ok |-> TRUE]) @@ srvReqs
               /\ UNCHANGED srvReply
    /\ ParamsKept
    /\ UNCHANGED <<pc, inputs, srvRuns, srvPosted>>
    /\ ServeFrame
\* getStackParams: c.JSON(http.StatusOK, *stackParams)
Srv_GetStackParams == GetBegins("stack")
\* getPreProcessParams: c.JSON(http.StatusOK, *preProcessParams)
Srv_GetPreProcessParams == GetBegins("pre")
\* getPostProcessParams: c.JSON(http.StatusOK, *postProcessParams)
Srv_GetPostProcessParams == GetBegins("post")
\* the GET k reads the next field; after the last one the handler replies
Srv_JSON(k) ==
    /\ Serving
    /\ srvReqs[k].kind = "get"
    /\ LET q == srvReqs[k] IN
       \E f \in q.left :
          LET got == (f :> ServedParams[q.endpoint][f]) @@ q.got IN
          IF q.left = {f}
          THEN /\ Replied(q.endpoint, got)
               /\ srvReqs' = Served(srvReqs, k)
          ELSE /\ srvReqs' = [srvReqs EXCEPT ![k].got = got, ![k].left = q.left \ {f}]
               /\ UNCHANGED srvReply
    /\ ParamsKept
    /\ UNCHANGED <<pc, inputs, srvRuns, srvCalls, srvPosts, srvPosted>>
    /\ ServeFrame

\* PrepareBatches on n files: the parallelism values it can go on with
ViableFor(n) ==
    { q \in 1..cpu :
        LET fit == AvailableFrames - q - CalibrationSlots
            bs == IF fit >= 2 /\ CeilDiv(n, fit) > 1 THEN fit - 2 ELSE fit
        IN  bs >= 2 /\ bs >= q }
\* the largest of them
ParallelismFor(n) == CHOOSE q \in ViableFor(n) : \A r \in ViableFor(n) : r <= q
\* the loop that evens out the size of the last batch
RECURSIVE EvenedOut(_, _, _)
EvenedOut(bs, nb, n) ==
    IF EvenOutMore(bs, nb, n) THEN EvenedOut(EvenOutStep(bs), nb, n) ELSE bs
\* numBatches and batchSize that PrepareBatches returns for n files
BatchesFor(n) ==
    LET fit == AvailableFrames - ParallelismFor(n) - CalibrationSlots
        nb == CeilDiv(n, fit)
    IN  [nb |-> nb, bs |-> EvenedOut(IF nb > 1 THEN fit - 2 ELSE fit, nb, n)]

\* the bounds FindSigmasAndStack finds on the frames of the server
ServeFound == {0}

\* A call of CmdStack by postStackRun, with its local variables: n is
\* len(fileNames), p imageLevelParallelism, todo, mid and kept the numbers of
\* the frames of the batch that PostProcessLights has yet to start, that are
\* past their alignment, and that it has kept; refAt is where the reference
\* frame is among them ("out": not in the batch), nostats that the Stats of
\* the reference frame are nil, which they stay for the batches to come,
\* found the upper bound that is about to be assigned. The frames
\* are not looked at: whether they load, which of them is the reference and
\* which of them are dropped are choices.
NewRun(n) == [pc |-> "start", n |-> n, p |-> 0, nb |-> 0, bs |-> 0, b |-> 0,
              refFrame |-> NilPtr, aligner |-> FALSE, todo |-> 0, mid |-> 0, kept |-> 0,
              refAt |-> "out", nostats |-> FALSE, found |-> 0]
\* the run k is at position p
RunAt(k, p) == Serving /\ k \in DOMAIN srvRuns /\ srvRuns[k].pc = p
\* the run k goes on as r
RunMoves(k, r) == srvRuns' = [srvRuns EXCEPT ![k] = r] /\ UNCHANGED pc
\* LogFatal, or a panic outside the goroutine of the handler: the process ends
ProcessEnds(e) == pc' = e /\ UNCHANGED srvRuns
\* what a step of a run leaves alone: the requests
RunFrame ==
    /\ UNCHANGED <<inputs, srvReqs, srvCalls, srvPosts, srvPosted, srvReply>>
    /\ ServeFrame

\* postStackRun: CmdStack(inputs, preProcessParams, postProcessParams,
\* stackParams) is called with the list of inputs as it is now and with the
\* parameter objects of the server
Srv_PostStackRun ==
    /\ Calls
    /\ srvRuns' = (Arriving :> NewRun(inputs.len)) @@ srvRuns
    /\ ParamsKept
    /\ UNCHANGED <<pc, inputs, srvReqs, srvPosted, srvReply>>
    /\ ServeFrame

\* CmdStack, "if preP.NormHist==HNMAuto": the test
Run_TestNormHist(k) ==
    /\ RunAt(k, "start")
    /\ RunMoves(k, [srvRuns[k] EXCEPT
                      !.pc = IF preNormHist = HNMAuto THEN "default" ELSE "prepare"])
    /\ ParamsKept
    /\ RunFrame
\* CmdStack, "preP.NormHist=HNMLocScale": the assignment
Run_SetNormHist(k) ==
    /\ RunAt(k, "default")
    /\ RunMoves(k, [srvRuns[k] EXCEPT !.pc = "prepare"])
    /\ Assigned("pre", "NormHist", HNMLocScale)
    /\ RunFrame
\* CmdStack calls PrepareBatches with stackP.Memory: without a file it
\* panics on fileNames[0], without a batch size it ends the process
Run_PrepareBatches(k) ==
    /\ RunAt(k, "prepare")
    /\ LET r == srvRuns[k] IN
       IF ProbesFirstLight /\ r.n = 0
       THEN RunMoves(k, [r EXCEPT !.pc = "panicked"])
       ELSE IF ViableFor(r.n) = {}
       THEN ProcessEnds("fatal_pb")
       ELSE RunMoves(k, [r EXCEPT !.pc = "loop", !.p = ParallelismFor(r.n),
                                  !.nb = BatchesFor(r.n).nb, !.bs = BatchesFor(r.n).bs])
    /\ ParamsKept
    /\ RunFrame
\* The loop of CmdStack cuts the batch b, and stackBatch preprocesses its
\* frames: a frame that does not load is a nil entry of lights, and the loop
\* over the noise panics
Run_PreProcessLights(k) ==
    /\ RunAt(k, "loop")
    /\ srvRuns[k].b < srvRuns[k].nb
    /\ LET r == srvRuns[k]
           from == BatchStartOffset(r.b, r.bs)
           to == BatchEndOffset(r.b, r.bs, r.n)
       IN  IF from > to \/ to > r.n \/ from < 0
           THEN RunMoves(k, [r EXCEPT !.pc = "panicked"])
           ELSE \E loaded \in BOOLEAN :
                   /\ ~loaded => to - from > 0
                   /\ RunMoves(k, IF loaded
                                  THEN [r EXCEPT !.pc = "select", !.todo = to - from]
                                  ELSE [r EXCEPT !.pc = "panicked"])
    /\ ParamsKept
    /\ RunFrame
\* stackBatch after the test of line 138: with needs and without a reference
\* from a batch before, one of the frames is selected, and without a frame
\* stackBatch panics
Selected(r, needs) ==
    IF needs /\ r.refFrame = NilPtr
    THEN IF r.todo = 0 THEN [r EXCEPT !.pc = "panicked"]
         ELSE [r EXCEPT !.pc = "post", !.refFrame = Addr(FileName(0)), !.refAt = "todo",
                        !.nostats = FALSE]
    ELSE [r EXCEPT !.pc = "post", !.refAt = "out"]
\* stackBatch, "if (postP.Align!=0 || ...": the first operand
Run_TestAlign(k) ==
    /\ RunAt(k, "select")
    /\ RunMoves(k, IF align # 0 THEN Selected(srvRuns[k], TRUE)
                   ELSE [srvRuns[k] EXCEPT !.pc = "select_nh"])
    /\ ParamsKept
    /\ RunFrame
\* stackBatch, "... || postP.NormHist!=0) && (refFrame==nil)": the second operand
Run_TestPostNormHist(k) ==
    /\ RunAt(k, "select_nh")
    /\ RunMoves(k, Selected(srvRuns[k], normHist # 0))
    /\ ParamsKept
    /\ RunFrame
\* PostProcessLights, "if p.Align!=0": without stars in the reference, or
\* without a reference, the process ends; else the aligner is made
Run_PostProcessLights(k) ==
    /\ RunAt(k, "post")
    /\ LET r == srvRuns[k] IN
       IF align = 0 THEN RunMoves(k, [r EXCEPT !.pc = "workers", !.aligner = FALSE])
       ELSE \/ ProcessEnds("fatal_align")
            \/ /\ r.refFrame # NilPtr
               /\ RunMoves(k, [r EXCEPT !.pc = "workers", !.aligner = TRUE])
    /\ ParamsKept
    /\ RunFrame
\* A goroutine of PostProcessLights in postProcessLight, to the end of the
\* alignment. "switch p.NormHist": to match the histogram of a reference that
\* is nil, or whose statistics are, is a nil dereference in the goroutine,
\* which ends the process; under HNMLocBlack the frame is dropped when its
\* statistics fail, and they are nil from then on. With an aligner a frame
\* other than the reference is dropped for its residual or by Project.
Run_postProcessLight(k) ==
    /\ RunAt(k, "workers")
    /\ srvRuns[k].todo > 0
    /\ srvRuns[k].mid < srvRuns[k].p
    /\ LET r == srvRuns[k] IN
       \E isRef \in BOOLEAN :
          /\ isRef => r.refAt = "todo"
          /\ (r.refAt = "todo" /\ r.todo = 1) => isRef
          /\ IF /\ normHist \in {HNMLocScale, HNMLocBlack}
                /\ r.refFrame = NilPtr \/ r.nostats
             THEN ProcessEnds("panic_post")
             ELSE \/ /\ normHist = HNMLocBlack
                     /\ RunMoves(k, [r EXCEPT !.todo = r.todo - 1,
                                              !.refAt = IF isRef THEN "done" ELSE r.refAt,
                                              !.nostats = r.nostats \/ isRef])
                  \/ /\ r.aligner /\ ~isRef
                     /\ RunMoves(k, [r EXCEPT !.todo = r.todo - 1])
                  \/ RunMoves(k, [r EXCEPT !.todo = r.todo - 1, !.mid = r.mid + 1,
                                           !.refAt = IF isRef THEN "mid" ELSE r.refAt])
    /\ ParamsKept
    /\ RunFrame
\* The goroutine in postProcessLight, "if p.UsmGain>0": the frame is dropped
\* when its statistics fail, and they are nil from then on; else it is kept
Run_UnsharpMask(k) ==
    /\ RunAt(k, "workers")
    /\ srvRuns[k].mid > 0
    /\ LET r == srvRuns[k] IN
       \E isRef \in BOOLEAN :
          /\ isRef => r.refAt = "mid"
          /\ (r.refAt = "mid" /\ r.mid = 1) => isRef
          /\ \/ /\ usmGain > 0
                /\ RunMoves(k, [r EXCEPT !.mid = r.mid - 1,
                                         !.refAt = IF isRef THEN "done" ELSE r.refAt,
                                         !.nostats = r.nostats \/ isRef])
             \/ RunMoves(k, [r EXCEPT !.mid = r.mid - 1, !.kept = r.kept + 1,
                                      !.refAt = IF isRef THEN "done" ELSE r.refAt])
    /\ ParamsKept
    /\ RunFrame
\* the batch is stacked: the loop of CmdStack goes on with the next one, and
\* a stack of no frame is an error that ends the process
Stacked(k) ==
    LET r == srvRuns[k] IN
    IF r.kept = 0 THEN ProcessEnds("fatal_stack")
    ELSE RunMoves(k, [r EXCEPT !.pc = "loop", !.b = r.b + 1, !.aligner = FALSE,
                               !.kept = 0, !.refAt = "out", !.found = 0])
\* stackBatch, "if stackP.SigmaLow>=0 && ...": the first operand, after the
\* goroutines are done
Run_TestSigmaLow(k) ==
    /\ RunAt(k, "workers")
    /\ srvRuns[k].todo = 0
    /\ srvRuns[k].mid = 0
    /\ RunMoves(k, [srvRuns[k] EXCEPT !.pc = IF sigmaLow >= 0 THEN "test_high" ELSE "find"])
    /\ ParamsKept
    /\ RunFrame
\* stackBatch, "... && stackP.SigmaHigh>=0": the second operand, and Stack
\* with the bounds
Run_TestSigmaHigh(k) ==
    /\ RunAt(k, "test_high")
    /\ IF sigmaHigh >= 0 THEN Stacked(k)
       ELSE RunMoves(k, [srvRuns[k] EXCEPT !.pc = "find"])
    /\ ParamsKept
    /\ RunFrame
\* stackBatch, "stack, _, _, stackP.SigmaLow, stackP.SigmaHigh, err=
\* FindSigmasAndStack(...)": the call and the assignment of the lower bound
Run_SetSigmaLow(k) ==
    /\ RunAt(k, "find")
    /\ \E fl \in ServeFound, fh \in ServeFound :
          /\ Assigned("stack", "SigmaLow", SigmaWritten(sigmaLow, fl))
          /\ RunMoves(k, [srvRuns[k] EXCEPT !.pc = "set_high", !.found = fh])
    /\ RunFrame
\* the assignment of the upper bound, and the test of err
Run_SetSigmaHigh(k) ==
    /\ RunAt(k, "set_high")
    /\ Assigned("stack", "SigmaHigh", SigmaWritten(sigmaHigh, srvRuns[k].found))
    /\ Stacked(k)
    /\ RunFrame
\* The loop of CmdStack is over: the output is written, which ends the
\* process when it fails, and CmdStack returns to postStackRun, which replies
Srv_RunReturn(k) ==
    /\ RunAt(k, "loop")
    /\ srvRuns[k].b >= srvRuns[k].nb
    /\ \/ ProcessEnds("fatal_write")
       \/ srvRuns' = Served(srvRuns, k) /\ UNCHANGED pc
    /\ ParamsKept
    /\ RunFrame
\* gin.Recovery: a panic in the goroutine of the handler ends the request
\* with status 500, not the server
Srv_Recovery(k) ==
    /\ RunAt(k, "panicked")
    /\ srvRuns' = Served(srvRuns, k)
    /\ ParamsKept
    /\ UNCHANGED pc
    /\ RunFrame

(***************************************************************************)
(* PostProcessAndSaveRgbComposite (cmdserve.go): AutoBalanceColors,         *)
(* CombineLrgb, EnhanceColors, EnhanceToneCurve, the output                *)
(***************************************************************************)
\* A conversion of the color space, on data in the space sp. A conversion
\* that is given data of another space than its source yields numbers that
\* are in no space.
ConvertMutant(sp, c) == sp
Convert(sp, c) ==
    CASE c = "ToXyy"       -> IF sp = "RGB" THEN "xyY" ELSE "none"
      [] c = "XyyToRGB"    -> IF sp = "xyY" THEN "RGB" ELSE "none"
      [] c = "RGBToCIEHSL" -> IF sp = "RGB" THEN "HSL" ELSE "none"
      [] c = "CIEHSLToRGB" -> IF sp = "HSL" THEN "RGB" ELSE "none"

\* the values of the color parameters: neutral and not
ColorParamSets == [neutSigmaLow : {-1, 1}, neutSigmaHigh : {-1, 1}, chromaGamma : {1, 2},
                   chromaBy : {0, 1, 2}, rotBy : {0, 1}, scnr : {0, 1}]
\* the values of the tone curve parameters: neutral and not
ToneParamSets == [autoLoc : {0, 10}, autoScale : {0, 1}, midtone : {0, 1}, gamma : {1, 2},
                  ppGamma : {1, 2}, scaleBlack : {0, 1}]
\* the defaults of the flags of main
NeutralColor == [neutSigmaLow |-> -1, neutSigmaHigh |-> -1, chromaGamma |-> 1,
                 chromaBy |-> 1, rotBy |-> 0, scnr |-> 0]
NeutralTone == [autoLoc |-> 0, autoScale |-> 0, midtone |-> 0, gamma |-> 1, ppGamma |-> 1,
                scaleBlack |-> 0]

\* the condition under which EnhanceColors converts to HSL and works there
EnhancesColors(p) ==
    \/ (p.neutSigmaLow >= 0 /\ p.neutSigmaHigh >= 0)
    \/ p.chromaGamma # 1
    \/ p.chromaBy # 0
    \/ p.rotBy # 0
    \/ p.scnr # 0
\* the condition under which EnhanceToneCurve converts to xyY and works there
EnhancesTone(p) ==
    \/ (p.autoLoc # 0 /\ p.autoScale # 0)
    \/ p.midtone # 0
    \/ p.gamma # 1
    \/ p.ppGamma # 1
    \/ p.scaleBlack # 0
\* "if i==30": the automatic curves loop gives up
AtCapMutant(k) == k = 31
AtCap(k) == k = 30

\* PostProcessAndSaveRgbComposite is not called
NoColor ==
    /\ cP = NeutralColor
    /\ tcP = NeutralTone
    /\ lum = FALSE
    /\ colPc = "idle"
    /\ space = "RGB"
    /\ convLog = <<>>
    /\ applied = {}
    /\ tcI = 0
    /\ tcAdjusts = 0
    /\ tcWarned = FALSE
    /\ abI = 0

\* A step to the position nextPc that converts rgb with the conversions conv
\* and changes it with the operations ops
ColMove(nextPc, conv, ops) ==
    /\ colPc' = nextPc
    /\ space' = IF conv = <<>> THEN space ELSE Convert(space, conv[1])
    /\ convLog' = convLog \o conv
    /\ applied' = applied \cup ops
    /\ UNCHANGED <<restOfColor, cP, tcP, lum>>
\* such a step outside the loop of AutoBalanceColors
ColStep(nextPc, conv, ops) == ColMove(nextPc, conv, ops) /\ UNCHANGED abI
\* the step leaves the variables of the automatic curves loop alone
NoLoop == UNCHANGED <<tcI, tcAdjusts, tcWarned>>
\* LogFatal
ColFatal == ColStep("fatal", <<>>, {})

\* AutoBalanceColors: without stars nothing is done; else one pass of
\* "for i:=0; i<3; i++" calls SetBlackWhitePoints, and an error is fatal
Col_AutoBalance ==
    /\ colPc = "balance"
    /\ \E stars \in BOOLEAN, ok \in BOOLEAN :
          IF abI = 0 /\ ~stars THEN ColStep("lrgb", <<>>, {})
          ELSE IF ~ok THEN ColFatal
          ELSE /\ ColMove(IF abI + 1 < 3 THEN "balance" ELSE "lrgb", <<>>,
                          {"SetBlackWhitePoints"})
               /\ abI' = abI + 1
    /\ NoLoop

\* CombineLrgb: with a luminance image, rgb.ToXyy()
L_ToXyy ==
    /\ colPc = "lrgb"
    /\ IF lum THEN ColStep("lrgb_apply", <<"ToXyy">>, {})
       ELSE ColStep("ec_enter", <<>>, {})
    /\ NoLoop

\* rgb.ApplyLuminanceToCIExyY(lum)
L_Apply ==
    /\ colPc = "lrgb_apply"
    /\ ColStep("lrgb_back", <<>>, {"ApplyLuminanceToCIExyY"})
    /\ NoLoop

\* rgb.XyyToRGB()
L_XyyToRGB ==
    /\ colPc = "lrgb_back"
    /\ ColStep("ec_enter", <<"XyyToRGB">>, {})
    /\ NoLoop

\* EnhanceColors: the condition, and rgb.RGBToCIEHSL()
EC_Enter ==
    /\ colPc = "ec_enter"
    /\ IF EnhancesColors(cP) THEN ColStep("ec_neut", <<"RGBToCIEHSL">>, {})
       ELSE ColStep("tc_enter", <<>>, {})
    /\ NoLoop

\* neutralize the background; an error of HCLLumLocScale is fatal
EC_Neutralize ==
    /\ colPc = "ec_neut"
    /\ IF cP.neutSigmaLow >= 0 /\ cP.neutSigmaHigh >= 0
       THEN \E ok \in BOOLEAN :
               IF ok THEN ColStep("ec_gamma", <<>>, {"NeutralizeBackground"}) ELSE ColFatal
       ELSE ColStep("ec_gamma", <<>>, {})
    /\ NoLoop

\* apply gamma to the saturation; an error of HCLLumLocScale is fatal
EC_ChromaGamma ==
    /\ colPc = "ec_gamma"
    /\ IF cP.chromaGamma # 1
       THEN \E ok \in BOOLEAN :
               IF ok THEN ColStep("ec_by", <<>>, {"AdjustChroma"}) ELSE ColFatal
       ELSE ColStep("ec_by", <<>>, {})
    /\ NoLoop

\* multiply the chroma for the hues chosen
EC_ChromaBy ==
    /\ colPc = "ec_by"
    /\ IF cP.chromaBy # 1 THEN ColStep("ec_rot", <<>>, {"AdjustChromaForHues"})
       ELSE ColStep("ec_rot", <<>>, {})
    /\ NoLoop

\* rotate the hue angles
EC_Rotate ==
    /\ colPc = "ec_rot"
    /\ IF cP.rotBy # 0 THEN ColStep("ec_scnr", <<>>, {"RotateColors"})
       ELSE ColStep("ec_scnr", <<>>, {})
    /\ NoLoop

\* apply SCNR
EC_Scnr ==
    /\ colPc = "ec_scnr"
    /\ IF cP.scnr # 0 THEN ColStep("ec_back", <<>>, {"SCNR"})
       ELSE ColStep("ec_back", <<>>, {})
    /\ NoLoop

\* rgb.CIEHSLToRGB()
EC_CIEHSLToRGB ==
    /\ colPc = "ec_back"
    /\ ColStep("tc_enter", <<"CIEHSLToRGB">>, {})
    /\ NoLoop

\* EnhanceToneCurve: the condition, rgb.ToXyy(), and "for i:=0"
TC_Enter ==
    /\ colPc = "tc_enter"
    /\ IF EnhancesTone(tcP)
       THEN ColStep(IF tcP.autoLoc # 0 /\ tcP.autoScale # 0 THEN "tc_loop" ELSE "tc_mid",
                    <<"ToXyy">>, {})
       ELSE ColStep("write", <<>>, {})
    /\ tcI' = 0
    /\ UNCHANGED <<tcAdjusts, tcWarned>>

\* One iteration of the automatic curves loop. At the cap it warns and
\* breaks. Else the location and scale found decide: a gamma is applied, or
\* black is shifted, or the loop is done; an error of HCLLumLocScale is fatal.
TC_Loop ==
    /\ colPc = "tc_loop"
    /\ IF AtCap(tcI)
       THEN /\ tcWarned' = TRUE
            /\ ColStep("tc_mid", <<>>, {})
            /\ UNCHANGED <<tcI, tcAdjusts>>
       ELSE \E found \in {"error", "gamma", "shift", "done"} :
               CASE found = "error" -> ColFatal /\ NoLoop
                 [] found = "gamma" ->
                      /\ ColStep("tc_loop", <<>>, {"ApplyGammaToChannel"})
                      /\ tcI' = tcI + 1
                      /\ tcAdjusts' = tcAdjusts + 1
                      /\ UNCHANGED tcWarned
                 [] found = "shift" ->
                      /\ ColStep("tc_loop", <<>>, {"ShiftBlackToMoveChannel"})
                      /\ tcI' = tcI + 1
                      /\ tcAdjusts' = tcAdjusts + 1
                      /\ UNCHANGED tcWarned
                 [] OTHER -> ColStep("tc_mid", <<>>, {}) /\ NoLoop

\* adjust the midtones; an error of HCLLumLocScale is fatal
TC_Midtone ==
    /\ colPc = "tc_mid"
    /\ IF tcP.midtone # 0
       THEN \E ok \in BOOLEAN :
               IF ok THEN ColStep("tc_gamma", <<>>, {"ApplyMidtonesToChannel"}) ELSE ColFatal
       ELSE ColStep("tc_gamma", <<>>, {})
    /\ NoLoop

\* adjust gamma
TC_Gamma ==
    /\ colPc = "tc_gamma"
    /\ IF tcP.gamma # 1 THEN ColStep("tc_pp", <<>>, {"ApplyGammaToChannel"})
       ELSE ColStep("tc_pp", <<>>, {})
    /\ NoLoop

\* adjust gamma post peak; an error of HCLLumLocScale is fatal
TC_PpGamma ==
    /\ colPc = "tc_pp"
    /\ IF tcP.ppGamma # 1
       THEN \E ok \in BOOLEAN :
               IF ok THEN ColStep("tc_black", <<>>, {"ApplyPartialGammaToChannel"})
               ELSE ColFatal
       ELSE ColStep("tc_black", <<>>, {})
    /\ NoLoop

\* scale the histogram peak, if the location lies above the target; an
\* error of HCLLumLocScale is fatal
TC_ScaleBlack ==
    /\ colPc = "tc_black"
    /\ IF tcP.scaleBlack # 0
       THEN \E ok \in BOOLEAN, above \in BOOLEAN :
               IF ~ok THEN ColFatal
               ELSE IF above THEN ColStep("tc_back", <<>>, {"ShiftBlackToMoveChannel"})
               ELSE ColStep("tc_back", <<>>, {})
       ELSE ColStep("tc_back", <<>>, {})
    /\ NoLoop

\* rgb.XyyToRGB()
TC_XyyToRGB ==
    /\ colPc = "tc_back"
    /\ ColStep("write", <<"XyyToRGB">>, {})
    /\ NoLoop

\* the outputs are written; an error of rgb.WriteFile is fatal
Col_Write ==
    /\ colPc = "write"
    /\ \E ok \in BOOLEAN : IF ok THEN ColStep("done", <<>>, {}) ELSE ColFatal
    /\ NoLoop

(***************************************************************************)
(* The pool of []float32 arrays (helpers.go)                               *)
(***************************************************************************)
\* largest length of an array
MaxBufLen == 2
\* number of goroutines that use the pool
MaxGoroutines == 2
\* largest number of calls of the pool's functions in a run
MaxPoolCalls == 6

\* the lengths asked for
BufLens == 1..MaxBufLen
\* the goroutines
Goroutines == 1..MaxGoroutines
\* a nil *sync.Pool
NilPool == 0
\* no array
NoBuf == [len |-> 0, asked |-> 0, reused |-> FALSE]
\* a goroutine outside the functions of the pool, holding the array held
IdleGoroutine(held) == [pc |-> "idle", op |-> "none", size |-> 0, pool |-> NilPool,
                        arr |-> NoBuf, held |-> held]
\* the New function of the sync.Pool made for size: make([]float32, size)
NewBuf(size) == [len |-> size, asked |-> 0, reused |-> FALSE]
\* the key under which PutArrayOfFloat32IntoPool looks for the pool: len(arr)
PutSizeMutant(arr) == 1
PutSize(arr) == arr.len

\* the pool is not used
NoBufPool ==
    /\ poolFloat32 = [n \in BufLens |-> NilPool]
    /\ syncPools = <<>>
    /\ gor = [g \in Goroutines |-> IdleGoroutine(NoBuf)]
    /\ installs = [n \in BufLens |-> 0]
    /\ poolCalls = 0

\* A goroutine calls GetArrayOfFloat32FromPool(size), or
\* PutArrayOfFloat32IntoPool(arr) with an array it holds; both begin with
\* getSizedPoolFloat32
B_Call(g) ==
    /\ gor[g].pc = "idle"
    /\ poolCalls < MaxPoolCalls
    /\ poolCalls' = poolCalls + 1
    /\ IF gor[g].held = NoBuf
       THEN \E size \in BufLens :
               gor' = [gor EXCEPT ![g].pc = "lookup", ![g].op = "get", ![g].size = size]
       ELSE gor' = [gor EXCEPT ![g].pc = "lookup", ![g].op = "put",
                               ![g].size = PutSize(gor[g].held),
                               ![g].arr = gor[g].held, ![g].held = NoBuf]
    /\ UNCHANGED <<restOfBuf, poolFloat32, syncPools, installs>>

\* getSizedPoolFloat32: RLock, pool:=poolFloat32.m[size], RUnlock
B_Lookup(g) ==
    /\ gor[g].pc = "lookup"
    /\ gor' = [gor EXCEPT ![g].pool = poolFloat32[gor[g].size],
                          ![g].pc = IF poolFloat32[gor[g].size] = NilPool
                                    THEN "install" ELSE "use"]
    /\ UNCHANGED <<restOfBuf, poolFloat32, syncPools, installs, poolCalls>>

\* "if pool==nil": a sync.Pool is made, then Lock, poolFloat32.m[size]=pool,
\* Unlock; the map is not read again under the lock
B_Install(g) ==
    /\ gor[g].pc = "install"
    /\ syncPools' = Append(syncPools, [size |-> gor[g].size, items |-> <<>>])
    /\ poolFloat32' = [poolFloat32 EXCEPT ![gor[g].size] = Len(syncPools) + 1]
    /\ installs' = [installs EXCEPT ![gor[g].size] = @ + 1]
    /\ gor' = [gor EXCEPT ![g].pool = Len(syncPools) + 1, ![g].pc = "use"]
    /\ UNCHANGED <<restOfBuf, poolCalls>>

\* s without its element at position k
RemoveAt(s, k) == [j \in 1..(Len(s) - 1) |-> IF j < k THEN s[j] ELSE s[j + 1]]

\* pool.Get().([]float32): any array the pool holds, or the result of New(),
\* which Get may return also when the pool holds arrays; pool.Put(arr)
B_Use(g) ==
    /\ gor[g].pc = "use"
    /\ LET q == gor[g].pool
           items == syncPools[q].items
       IN  IF gor[g].op = "get"
           THEN \/ /\ gor' = [gor EXCEPT ![g] = IdleGoroutine(
                                   [NewBuf(syncPools[q].size) EXCEPT !.asked = gor[g].size])]
                   /\ UNCHANGED syncPools
                \/ \E k \in 1..Len(items) :
                        /\ gor' = [gor EXCEPT ![g] = IdleGoroutine(
                                       [items[k] EXCEPT !.asked = gor[g].size,
                                                        !.reused = TRUE])]
                        /\ syncPools' = [syncPools EXCEPT ![q].items = RemoveAt(items, k)]
           ELSE /\ syncPools' = [syncPools EXCEPT ![q].items = Append(items, gor[g].arr)]
                /\ gor' = [gor EXCEPT ![g] = IdleGoroutine(NoBuf)]
    /\ UNCHANGED <<restOfBuf, poolFloat32, installs, poolCalls>>

\* the garbage collector removes an array from a sync.Pool
B_Collect(q) ==
    /\ \E k \in 1..Len(syncPools[q].items) :
          syncPools' = [syncPools EXCEPT ![q].items = RemoveAt(syncPools[q].items, k)]
    /\ UNCHANGED <<restOfBuf, poolFloat32, gor, installs, poolCalls>>

(***************************************************************************)
(* Specifications                                                          *)
(***************************************************************************)
\* none of the parts that are looked at on their own is in motion
NoAux ==
    /\ NoWeights
    /\ NoSelect
    /\ NoServe
    /\ NoColor
    /\ NoBufPool
\* no call of PreProcessLight is looked at step by step
NoPreProcess ==
    /\ ppArgs = <<>>
    /\ ppPc = <<>>
    /\ ppLight = <<>>

\* the local variables of a command, and what it has written, at its entry
RunLocals ==
    /\ handler = NoHandler
    /\ outFlags = NoOutFlags
    /\ wstep = 0
    /\ writeLog = <<>>
    /\ stackFrames = 0
    /\ stackOps = <<>>
    /\ numErrors = 0
    /\ availableFrames = 0
    /\ imageLevelParallelism = 0
    /\ batchSize = 0
    /\ numBatches = 0
    /\ overallIDs = EmptySlice
    /\ overallFileNames = EmptySlice
    /\ b = 0
    /\ handed = <<>>
    /\ heap = NoHeap
    /\ lights = EmptySlice
    /\ refFrame = NilPtr
    /\ refLog = <<>>
    /\ postLog = <<>>
    /\ stackLog = <<>>
    /\ outWritten = FALSE
    /\ pool = "none"
    /\ li = 0
    /\ sem = 0
    /\ drain = 0
    /\ wk = EmptySlice

\* the variables of the commands before a command has taken a step
InitLocals ==
    /\ preNormHist = normHist
    /\ RunLocals

\* largest number of input files of the runs with frames
MaxStackFrames == 5
\* largest -stMemory of the runs with frames, MiB
MaxStackMemory == 6
\* largest CPU count of the runs with frames
MaxStackCpu == 2
\* largest number of input files of the runs on more than one CPU, and of
\* those with unsharp masking; the longer runs have memory for two batches
MaxRaceFrames == 3

\* the state at the entry of the command, before any input is read
InitState ==
    /\ pc = "start"
    /\ InitLocals

\* the batch scheduler on its own: all sizes, budgets and CPU counts
InitBatch ==
    /\ cmd = "batches"
    /\ \E n \in 1..MaxFrames : fileNames = [i \in 0..(n-1) |-> FileName(i)]
    /\ stMemory \in 0..MaxMemory
    /\ darkF \in {NoImage} \cup FrameDims
    /\ flatF \in {NoImage} \cup FrameDims
    /\ firstDims \in FrameDims
    /\ LightsOfOneSize
    /\ NoAux
    /\ cpu \in 1..MaxCpu
    /\ align = 0
    /\ usmGain = 0
    /\ preFlags = NoPreFlags
    /\ normHist = HNMNone
    /\ sigmaLow = GivenSigma
    /\ sigmaHigh = GivenSigma
    /\ InitState
    /\ NoPreProcess

NextBatch ==
    \/ CmdStackDefaults
    \/ PB_Probe
    \/ PB_For
    \/ PB_Fatal
    \/ PB_Even
    \/ PB_Perm
    \/ BatchCut
    \/ BatchStub
    \/ LoopExit

SpecBatch == InitBatch /\ [][NextBatch]_vars

\* largest number of input files of the runs of PrepareBatches on its own
MaxPrepFrames == 3

\* CmdStack as postStackRun calls it: the input list may be empty
InitPrep ==
    /\ cmd = "batches"
    /\ \E n \in 0..MaxPrepFrames : fileNames = [i \in 0..(n-1) |-> FileName(i)]
    /\ stMemory \in 0..MaxMemory
    /\ darkF \in {NoImage} \cup FrameDims
    /\ flatF \in {NoImage} \cup FrameDims
    /\ firstDims \in FrameDims
    /\ LightsOfOneSize
    /\ NoAux
    /\ cpu \in 1..MaxCpu
    /\ align = 0
    /\ usmGain = 0
    /\ preFlags = NoPreFlags
    /\ normHist = HNMNone
    /\ sigmaLow = GivenSigma
    /\ sigmaHigh = GivenSigma
    /\ InitState
    /\ NoPreProcess

NextPrep ==
    \/ CmdStackDefaults
    \/ PB_Probe
    \/ PB_For
    \/ PB_Fatal
    \/ PB_Even
    \/ PB_Perm

\* the goroutine that runs CmdStack is scheduled as long as it can take a step
SpecPrep == InitPrep /\ [][NextPrep]_vars /\ WF_vars(NextPrep)

\* largest number of input files of the runs over the sigma bounds
MaxSigmaFrames == 6
\* largest -stMemory of the runs over the sigma bounds, MiB
MaxSigmaMemory == 5

\* the batch loop over the values of -stSigLow and -stSigHigh
InitSigma ==
    /\ cmd = "sigmas"
    /\ \E n \in 1..MaxSigmaFrames : fileNames = [i \in 0..(n-1) |-> FileName(i)]
    /\ stMemory \in 0..MaxSigmaMemory
    /\ darkF = NoImage
    /\ flatF = NoImage
    /\ firstDims = <<512, 512>>
    /\ LightsOfOneSize
    /\ NoAux
    /\ cpu = 1
    /\ align = 0
    /\ usmGain = 0
    /\ preFlags = NoPreFlags
    /\ normHist = HNMNone
    /\ sigmaLow \in SigmaInputs
    /\ sigmaHigh \in SigmaInputs
    /\ InitState
    /\ NoPreProcess

SpecSigma == InitSigma /\ [][NextBatch]_vars

\* largest number of input files of the runs of main
MaxMainFiles == 4

\* main on every command word, with and without output patterns
InitMain ==
    /\ cmd \in Words
    /\ \E n \in 0..MaxMainFiles : fileNames = [i \in 0..(n-1) |-> FileName(i)]
    /\ outFlags \in OutFlagSets
    /\ pc = "main"
    /\ handler = NoHandler
    /\ wstep = 0
    /\ writeLog = <<>>
    /\ stackFrames = 0
    /\ stackOps = <<>>
    /\ numErrors = 0
    /\ stMemory = 0
    /\ darkF = NoImage
    /\ flatF = NoImage
    /\ firstDims = <<512, 512>>
    /\ LightsOfOneSize
    /\ NoAux
    /\ cpu = 1
    /\ align = 0
    /\ usmGain = 0
    /\ preFlags = NoPreFlags
    /\ normHist = HNMNone
    /\ preNormHist = HNMNone
    /\ sigmaLow = GivenSigma
    /\ sigmaHigh = GivenSigma
    /\ availableFrames = 0
    /\ imageLevelParallelism = 0
    /\ batchSize = 0
    /\ numBatches = 0
    /\ overallIDs = EmptySlice
    /\ overallFileNames = EmptySlice
    /\ b = 0
    /\ handed = <<>>
    /\ heap = NoHeap
    /\ lights = EmptySlice
    /\ refFrame = NilPtr
    /\ refLog = <<>>
    /\ postLog = <<>>
    /\ stackLog = <<>>
    /\ outWritten = FALSE
    /\ pool = "none"
    /\ li = 0
    /\ sem = 0
    /\ drain = 0
    /\ wk = EmptySlice
    /\ NoPreProcess

NextMain ==
    \/ MainDispatch
    \/ RunCheck
    \/ WriteOutput
    \/ RunEnd

SpecMain == InitMain /\ [][NextMain]_vars

\* one call of PreProcessLight for every setting of its parameters
InitPre ==
    /\ cmd = "stack"
    /\ fileNames = [i \in 0..0 |-> FileName(i)]
    /\ stMemory = 0
    /\ darkF = NoImage
    /\ flatF = NoImage
    /\ firstDims = <<512, 512>>
    /\ LightsOfOneSize
    /\ NoAux
    /\ cpu = 1
    /\ align = 0
    /\ usmGain = 0
    /\ preFlags = NoPreFlags
    /\ normHist = HNMNone
    /\ sigmaLow = GivenSigma
    /\ sigmaHigh = GivenSigma
    /\ InitState
    /\ \E a \in PreArgSets : ppArgs = (0 :> a)
    /\ ppPc = (0 :> "load")
    /\ ppLight = (0 :> NoLight)

NextPre ==
    \/ \E c \in DOMAIN ppPc : PP_Load(c)
    \/ \E c \in DOMAIN ppPc : PP_Dark(c)
    \/ \E c \in DOMAIN ppPc : PP_Flat(c)
    \/ \E c \in DOMAIN ppPc : PP_Debayer(c)
    \/ \E c \in DOMAIN ppPc : PP_BadPixels(c)
    \/ \E c \in DOMAIN ppPc : PP_Binning(c)
    \/ \E c \in DOMAIN ppPc : PP_Stats(c)
    \/ \E c \in DOMAIN ppPc : PP_Background(c)
    \/ \E c \in DOMAIN ppPc : PP_Normalize(c)

SpecPre == InitPre /\ [][NextPre]_vars

\* largest number of input files of the runs with calibration frames
MaxCalFrames == 2
\* largest CPU count of these runs
MaxCalCpu == 2

\* the stack command on light frames of two sizes, with dark and flat
InitCal ==
    /\ cmd = "stack"
    /\ \E n \in 1..MaxCalFrames : fileNames = [i \in 0..(n-1) |-> FileName(i)]
    /\ stMemory \in {0, 2 * MaxStackMemory}
    /\ darkF \in {NoImage} \cup FrameDims
    /\ flatF \in {NoImage} \cup FrameDims
    /\ firstDims \in FrameDims
    /\ naxisn \in { d \in [Files -> FrameDims] : d[fileNames[0]] = firstDims }
    /\ NoAux
    /\ cpu \in 1..MaxCalCpu
    /\ align = 0
    /\ usmGain = 0
    /\ preFlags \in PreFlagSets
    /\ normHist = HNMNone
    /\ sigmaLow = GivenSigma
    /\ sigmaHigh = GivenSigma
    /\ InitState
    /\ NoPreProcess

\* from the entry of CmdStack to the return of PreProcessLights
NextCal ==
    \/ CmdStackDefaults
    \/ PB_Probe
    \/ PB_For
    \/ PB_Fatal
    \/ PB_Even
    \/ PB_Perm
    \/ BatchCut
    \/ PreStart
    \/ Launch
    \/ LaunchEnd
    \/ Drain
    \/ PoolReturn
    \/ \E i \in DOMAIN wk : WorkerEnter(i)
    \/ \E c \in DOMAIN ppPc : PP_Load(c)
    \/ \E c \in DOMAIN ppPc : PP_Dark(c)
    \/ \E c \in DOMAIN ppPc : PP_Flat(c)
    \/ \E c \in DOMAIN ppPc : PP_Debayer(c)
    \/ \E c \in DOMAIN ppPc : PP_BadPixels(c)
    \/ \E c \in DOMAIN ppPc : PP_Binning(c)
    \/ \E c \in DOMAIN ppPc : PP_Stats(c)
    \/ \E c \in DOMAIN ppPc : PP_Background(c)
    \/ \E c \in DOMAIN ppPc : PP_Normalize(c)
    \/ \E i \in DOMAIN wk : WorkerLeave(i)
    \/ \E i \in DOMAIN wk : WorkerStore(i)
    \/ \E i \in DOMAIN wk : WorkerRelease(i)

SpecCal == InitCal /\ [][NextCal]_vars

\* the stack command at rest, for the parts that are looked at on their own
InitIdle ==
    /\ cmd = "stack"
    /\ fileNames = [i \in 0..0 |-> FileName(i)]
    /\ stMemory = 0
    /\ darkF = NoImage
    /\ flatF = NoImage
    /\ firstDims = <<512, 512>>
    /\ LightsOfOneSize
    /\ cpu = 1
    /\ align = 0
    /\ usmGain = 0
    /\ preFlags = NoPreFlags
    /\ normHist = HNMNone
    /\ sigmaLow = GivenSigma
    /\ sigmaHigh = GivenSigma
    /\ InitState
    /\ NoPreProcess

\* largest number of lights of the runs that prepare weights
MaxWeightFrames == 3
\* largest noise of a frame
MaxNoise == 3

\* stackBatch with -stWeight 2, at the block that prepares the weights: any
\* lights with their noise as it was stored and as it is estimated now
InitWeight ==
    /\ InitIdle
    /\ wPc = "enter"
    /\ wI = 0
    /\ \E n \in 1..MaxWeightFrames :
          /\ wNoise \in [0..(n-1) -> 1..MaxNoise]
          /\ wData \in [0..(n-1) -> 1..MaxNoise]
    /\ minNoise = 0
    /\ maxNoise = 0
    /\ weights = EmptySlice
    /\ NoSelect
    /\ NoServe
    /\ NoColor
    /\ NoBufPool

NextWeight ==
    \/ W_Enter
    \/ W_MinMax
    \/ W_Weight

SpecWeight == InitWeight /\ [][NextWeight]_vars

\* longest list given to SelectReferenceFrame
MaxSelectFrames == 3
\* largest number of stars and largest HFR of a frame in that list
MaxStars == 2
MaxHFR == 2
\* an entry of the list: nil, or a frame with its stars and its HFR
SelectEntries == { e \in [nil : BOOLEAN, stars : 0..MaxStars, hfr : 0..MaxHFR] :
                     e.nil => e.stars = 0 /\ e.hfr = 0 }

\* a call of SelectReferenceFrame on any list of frames and nils
InitSelect ==
    /\ InitIdle
    /\ NoWeights
    /\ NoServe
    /\ NoColor
    /\ NoBufPool
    /\ selPc = "call"
    /\ \E n \in 0..MaxSelectFrames : \E e \in [0..(n-1) -> SelectEntries] :
          /\ selLights = [i \in 0..(n-1) |->
                            IF e[i].nil THEN NilPtr ELSE Addr(FileName(i))]
          /\ selHeap = [a \in { Addr(FileName(i)) : i \in { j \in 0..(n-1) : ~e[j].nil } } |->
                          NewLight(a - Addr(FileName(0)), a, e[a - Addr(FileName(0))])]
    /\ selRef = NilPtr

NextSelect == Sel_Call

SpecSelect == InitSelect /\ [][NextSelect]_vars

\* CmdServe has set the global parameter objects from the command line and
\* listens
InitServe ==
    /\ cmd = "serve"
    /\ \E n \in {MaxServeFiles, MaxServeInputs} : fileNames = [i \in 0..(n - 1) |-> FileName(i)]
    /\ stMemory = MaxSigmaMemory
    /\ darkF = NoImage
    /\ flatF = NoImage
    /\ firstDims = <<512, 512>>
    /\ naxisn = [f \in Files |-> firstDims]
    /\ cpu = 1
    /\ align = 0
    /\ usmGain = 0
    /\ preFlags = NoPreFlags
    /\ normHist = HNMNone
    /\ preNormHist = HNMAuto
    /\ sigmaLow = -1
    /\ sigmaHigh \in IF numFrames <= MaxServeFiles THEN {-1, GivenSigma} ELSE {-1}
    /\ pc = "serve"
    /\ RunLocals
    /\ NoPreProcess
    /\ NoWeights
    /\ NoSelect
    /\ NoColor
    /\ NoBufPool
    /\ inputs = SliceOf(fileNames)
    /\ colorParams = [Scnr |-> 0]
    /\ toneCurveParams = [Gamma |-> 1]
    /\ srvReqs = <<>>
    /\ srvRuns = <<>>
    /\ srvCalls = 0
    /\ srvPosts = 0
    /\ srvPosted = [stack |-> StackParams, pre |-> PreProcessParams,
                    post |-> PostProcessParams]
    /\ srvReply = NoReply

NextServe ==
    \/ Srv_PostPreProcessInputs
    \/ Srv_PostStackParams
    \/ Srv_PostPreProcessParams
    \/ Srv_PostPostProcessParams
    \/ Srv_PostColorParams
    \/ Srv_PostToneCurveParams
    \/ Srv_GetStackParams
    \/ Srv_GetPreProcessParams
    \/ Srv_GetPostProcessParams
    \/ Srv_PostStackRun
    \/ \E k \in DOMAIN srvReqs : Srv_BindJSON(k)
    \/ \E k \in DOMAIN srvReqs : Srv_BindInputs(k)
    \/ \E k \in DOMAIN srvReqs : Srv_JSON(k)
    \/ \E k \in DOMAIN srvRuns : Run_TestNormHist(k)
    \/ \E k \in DOMAIN srvRuns : Run_SetNormHist(k)
    \/ \E k \in DOMAIN srvRuns : Run_PrepareBatches(k)
    \/ \E k \in DOMAIN srvRuns : Run_PreProcessLights(k)
    \/ \E k \in DOMAIN srvRuns : Run_TestAlign(k)
    \/ \E k \in DOMAIN srvRuns : Run_TestPostNormHist(k)
    \/ \E k \in DOMAIN srvRuns : Run_PostProcessLights(k)
    \/ \E k \in DOMAIN srvRuns : Run_postProcessLight(k)
    \/ \E k \in DOMAIN srvRuns : Run_UnsharpMask(k)
    \/ \E k \in DOMAIN srvRuns : Run_TestSigmaLow(k)
    \/ \E k \in DOMAIN srvRuns : Run_TestSigmaHigh(k)
    \/ \E k \in DOMAIN srvRuns : Run_SetSigmaLow(k)
    \/ \E k \in DOMAIN srvRuns : Run_SetSigmaHigh(k)
    \/ \E k \in DOMAIN srvRuns : Srv_RunReturn(k)
    \/ \E k \in DOMAIN srvRuns : Srv_Recovery(k)


SpecServe == InitServe /\ [][NextServe]_vars

\* the start of a call of PostProcessAndSaveRgbComposite
ColorEntry ==
    /\ InitIdle
    /\ NoWeights
    /\ NoSelect
    /\ NoServe
    /\ NoBufPool
    /\ colPc = "balance"
    /\ space = "RGB"
    /\ convLog = <<>>
    /\ applied = {}
    /\ tcI = 0
    /\ tcAdjusts = 0
    /\ tcWarned = FALSE
    /\ abI = 0

\* PostProcessAndSaveRgbComposite on a linear RGB image, under all color
\* parameters, with and without luminance, the tone curve neutral or automatic
InitColor ==
    /\ ColorEntry
    /\ cP \in ColorParamSets
    /\ tcP \in {NeutralTone, [NeutralTone EXCEPT !.autoLoc = 10, !.autoScale = 1]}
    /\ lum \in BOOLEAN

NextColor ==
    \/ Col_AutoBalance
    \/ L_ToXyy
    \/ L_Apply
    \/ L_XyyToRGB
    \/ EC_Enter
    \/ EC_Neutralize
    \/ EC_ChromaGamma
    \/ EC_ChromaBy
    \/ EC_Rotate
    \/ EC_Scnr
    \/ EC_CIEHSLToRGB
    \/ TC_Enter
    \/ TC_Loop
    \/ TC_Midtone
    \/ TC_Gamma
    \/ TC_PpGamma
    \/ TC_ScaleBlack
    \/ TC_XyyToRGB
    \/ Col_Write

SpecColor == InitColor /\ [][NextColor]_vars

\* PostProcessAndSaveRgbComposite under all tone curve parameters, the color
\* parameters neutral or not
InitTone ==
    /\ ColorEntry
    /\ cP \in {NeutralColor, [NeutralColor EXCEPT !.chromaBy = 0]}
    /\ tcP \in ToneParamSets
    /\ lum \in BOOLEAN

\* LogFatal ends the process and the output ends the call; until then the
\* one goroutine of the command takes its next step.
SpecTone == InitTone /\ [][NextColor]_vars /\ WF_vars(NextColor)

\* goroutines of a command that acquire and release arrays, the map empty
InitBuf ==
    /\ InitIdle
    /\ NoWeights
    /\ NoSelect
    /\ NoServe
    /\ NoColor
    /\ NoBufPool

NextBuf ==
    \/ \E g \in Goroutines : B_Call(g)
    \/ \E g \in Goroutines : B_Lookup(g)
    \/ \E g \in Goroutines : B_Install(g)
    \/ \E g \in Goroutines : B_Use(g)
    \/ \E q \in 1..Len(syncPools) : B_Collect(q)

SpecBuf == InitBuf /\ [][NextBuf]_vars

\* largest number of input files of the runs that combine channels
MaxRgbFiles == 4
\* largest CPU count of these runs
MaxRgbCpu == 2

\* the settings of preP these runs start with: those of no account, and
\* bad pixel removal asked for
RgbPreFlags == {NoPreFlags, [NoPreFlags EXCEPT !.bpSigLow = SomeSigma, !.bpSigHigh = SomeSigma]}

\* the rgb, argb and lrgb commands
InitRgb ==
    /\ cmd \in RgbCommands
    /\ \E n \in 3..MaxRgbFiles : fileNames = [i \in 0..(n-1) |-> FileName(i)]
    /\ stMemory = 0
    /\ darkF = NoImage
    /\ flatF = NoImage
    /\ firstDims = <<512, 512>>
    /\ LightsOfOneSize
    /\ NoAux
    /\ cpu \in 1..MaxRgbCpu
    /\ align \in {0, 1}
    /\ usmGain \in IF cpu = 1 THEN {0, 1} ELSE {0}
    /\ preFlags \in RgbPreFlags
    /\ normHist \in {HNMNone, HNMLocBlack}
    /\ sigmaLow = GivenSigma
    /\ sigmaHigh = GivenSigma
    /\ InitState
    /\ NoPreProcess

NextRgb ==
    \/ RgbStart
    \/ Launch
    \/ LaunchEnd
    \/ Drain
    \/ PoolReturn
    \/ \E i \in DOMAIN wk : WorkerCompute(i)
    \/ \E i \in DOMAIN wk : WorkerStore(i)
    \/ \E i \in DOMAIN wk : WorkerCount(i)
    \/ \E i \in DOMAIN wk : WorkerRelease(i)
    \/ RgbPost
    \/ RgbCheck

SpecRgb == InitRgb /\ [][NextRgb]_vars

\* the stack and stats commands on a few frames
Init ==
    /\ cmd \in {"stack", "stats"}
    /\ \E n \in 1..MaxStackFrames : fileNames = [i \in 0..(n-1) |-> FileName(i)]
    /\ stMemory \in IF cmd = "stats" THEN {MaxStackMemory}
                    ELSE IF SliceLen(fileNames) <= MaxRaceFrames
                    THEN {MaxStackMemory - 4, MaxStackMemory}
                    ELSE {MaxStackMemory - 1}
    /\ darkF = NoImage
    /\ flatF = NoImage
    /\ firstDims = <<512, 512>>
    /\ LightsOfOneSize
    /\ NoAux
    /\ cpu \in IF SliceLen(fileNames) <= MaxRaceFrames THEN 1..MaxStackCpu ELSE {1}
    /\ align \in IF cmd = "stack" THEN {0, 1} ELSE {0}
    /\ usmGain \in IF cmd = "stack" /\ SliceLen(fileNames) <= MaxRaceFrames THEN {0, 1} ELSE {0}
    /\ preFlags = NoPreFlags
    /\ normHist \in IF cmd = "stack" THEN {HNMNone, HNMLocScale, HNMLocBlack, HNMAuto}
                                     ELSE {HNMNone}
    /\ sigmaLow = GivenSigma
    /\ sigmaHigh = GivenSigma
    /\ InitState
    /\ NoPreProcess

Next ==
    \/ CmdStackDefaults
    \/ PB_Probe
    \/ PB_For
    \/ PB_Fatal
    \/ PB_Even
    \/ PB_Perm
    \/ BatchCut
    \/ LoopExit
    \/ StatsStart
    \/ PreStart
    \/ Launch
    \/ LaunchEnd
    \/ Drain
    \/ PoolReturn
    \/ \E i \in DOMAIN wk : WorkerCompute(i)
    \/ \E i \in DOMAIN wk : WorkerStore(i)
    \/ \E i \in DOMAIN wk : WorkerCount(i)
    \/ \E i \in DOMAIN wk : WorkerRelease(i)
    \/ SB_Noise
    \/ SB_Select
    \/ PostStart
    \/ SB_Compact
    \/ SB_Stack
    \/ BatchFinish

Spec == Init /\ [][Next]_vars

\* largest number of input files of the runs under fair scheduling
MaxLiveFrames == 3
\* largest CPU count of these runs
MaxLiveCpu == 2

\* the stack and stats commands on fewer frames
InitLive ==
    /\ cmd \in {"stack", "stats"}
    /\ \E n \in 1..MaxLiveFrames : fileNames = [i \in 0..(n-1) |-> FileName(i)]
    /\ stMemory \in IF cmd = "stack"
                    THEN {MaxStackMemory - 4, MaxStackMemory}
                    ELSE {MaxStackMemory}
    /\ darkF = NoImage
    /\ flatF = NoImage
    /\ firstDims = <<512, 512>>
    /\ LightsOfOneSize
    /\ NoAux
    /\ cpu \in 1..MaxLiveCpu
    /\ align \in IF cmd = "stack" THEN {0, 1} ELSE {0}
    /\ usmGain = 0
    /\ preFlags = NoPreFlags
    /\ normHist = HNMNone
    /\ sigmaLow = GivenSigma
    /\ sigmaHigh = GivenSigma
    /\ InitState
    /\ NoPreProcess

\* The scheduler of Go: a goroutine that can take a step is not held back
\* for ever, so some step is taken as long as one can be.
SpecLive == InitLive /\ [][Next]_vars /\ WF_vars(Next)

(***************************************************************************)
(* Properties                                                              *)
(***************************************************************************)
\* PrepareBatches has returned to CmdStack
PBReturned ==
    /\ cmd # "stats"
    /\ pc \notin {"start", "prepare", "pb_for", "pb_check", "pb_even", "pb_perm", "fatal_pb",
                  "panic_index"}
\* the pool function is running: launch loop or wait loop
InPool == pc \in {"launch", "drain"}
\* some frames of the batch failed preprocessing, and some did not
PartialFailure ==
    /\ \E i \in DOMAIN lights : lights[i] = NilPtr
    /\ \E i \in DOMAIN lights : lights[i] # NilPtr
\* no frame of the batch is left
NoSurvivor == pool \in {"pre", "post"} /\ \A i \in DOMAIN lights : lights[i] = NilPtr
\* the goroutines of the pool whose frame was processed without error
Survivors == { i \in DOMAIN wk : ~wk[i].err }
\* the input files of a batch that was cut
FilesOf(k) == { handed[k].fileNames[j] : j \in DOMAIN handed[k].fileNames }

\* C1: when preprocessing fails for some but not all frames of a batch,
\* stackBatch does not crash: it goes on with the surviving frames.
C1_PartialFailureDoesNotCrash ==
    (pool = "pre" /\ PartialFailure) => pc \notin PanicPcs

\* C2: whenever PrepareBatches returns, batchSize*numBatches >= N and
\* batchSize <= availableFrames - imageLevelParallelism - calibration frames.
C2_BatcherInvariant ==
    PBReturned =>
        /\ batchSize * numBatches >= numFrames
        /\ batchSize <= availableFrames - imageLevelParallelism - CalibrationSlots

\* C3: when the batch loop of CmdStack has ended, every input file was handed
\* to stackBatch in exactly one batch: the ranges cover 0..N-1 without gap
\* and without overlap.
C3_EveryFileInOneBatch ==
    (PBReturned /\ pc = "loop" /\ b >= numBatches) =>
        /\ \A i \in 0..(numFrames - 1) :
              Cardinality({ k \in 1..Len(handed) : handed[k].from <= i /\ i < handed[k].to }) = 1
        /\ \A i \in 0..(numFrames - 1) :
              Cardinality({ k \in 1..Len(handed) : fileNames[i] \in FilesOf(k) }) = 1

\* C4: the ids and file names PrepareBatches returns correspond position by
\* position: shuffledFileNames[i] is the input file at original index ids[i].
C4_IdsMatchFileNames ==
    PBReturned =>
        \A i \in DOMAIN overallIDs : overallFileNames[i] = fileNames[overallIDs[i]]

\* C5: PreProcessLights and PostProcessLights return only after every
\* goroutine they started has stored its result and finished; the stacker
\* never starts while a frame of the batch is still being postprocessed.
C5_PoolReturnsAfterWorkers ==
    /\ (pool = "pre" /\ pc \in {"sb_noise", "sb_select", "sb_post"}) =>
          \A i \in DOMAIN wk :
             wk[i].st = "done" /\ (~wk[i].err => lights[i] = wk[i].res)
    /\ (pool = "post" /\ pc = "sb_compact") =>
          \A i \in DOMAIN wk : wk[i].st = "done" /\ lights[i] = wk[i].res
    /\ (pool = "post" /\ pc \in {"sb_stack", "sb_return", "fatal_stack"}) =>
          \A i \in DOMAIN wk : wk[i].st = "done"
C5_Witness ==
    /\ pc = "sb_stack"
    /\ PoolCap >= 2
    /\ SliceLen(wk) >= 3

\* C6: at every moment of PreProcessLights, PostProcessLights and CmdStats the
\* number of frames held by goroutines is at most the capacity of sem.
C6_BusyWithinCapacity ==
    Cardinality(Busy) <= PoolCap
C6_Witness ==
    /\ pool = "post"
    /\ pc = "launch"
    /\ li < PoolLen
    /\ PoolCap >= 2
    /\ Cardinality(Busy) = PoolCap

\* C7: during PreProcessLights a slot of lights is only ever written by the
\* goroutine of that index, and when it returns every slot i holds the frame
\* of fileNames[i] with ID ids[i], or nil if that frame failed.
C7_SlotsHoldOwnFrame ==
    pool = "pre" =>
        \A i \in DOMAIN lights :
           /\ lights[i] # NilPtr =>
                 /\ wk[i].st \in {"stored", "done"}
                 /\ ~wk[i].err
                 /\ heap[lights[i]].file = CurBatch.fileNames[i]
                 /\ heap[lights[i]].ID = CurBatch.ids[i]
           /\ ~InPool => (lights[i] = NilPtr <=> wk[i].err)
C7_Witness ==
    /\ pool = "pre"
    /\ pc = "panic_noise"
    /\ lights[0] = NilPtr
    /\ SliceLen(lights) >= 3
    /\ lights[2] # NilPtr

\* C8: in a run with more than one batch and alignment or normalization on,
\* the reference frame is selected once, from the frames of batch 0, and it
\* is the reference of every call of PostProcessLights.
C8_OneReference ==
    (cmd = "stack" /\ numBatches > 1 /\ (align # 0 \/ normHist # HNMNone)) =>
        /\ Len(refLog) <= 1
        /\ \A k \in 1..Len(refLog) :
              /\ refLog[k].batch = 0
              /\ refLog[k].ref \in { Addr(f) : f \in FilesOf(1) }
              /\ refFrame = refLog[k].ref
        /\ \A k \in 1..Len(postLog) :
              /\ Len(refLog) = 1
              /\ postLog[k].alignRef = refLog[1].ref
              /\ postLog[k].histoRef = refLog[1].ref
              /\ refLog[1].ref \in DOMAIN heap
              /\ heap[refLog[1].ref].file \in FilesOf(1)
C8_Witness ==
    /\ numBatches > 1
    /\ align # 0
    /\ Len(postLog) = 2
    /\ postLog[2].batch = 1
    /\ pc = "sb_return"

\* C9: if no frame of a batch survives, the stack command ends with a fatal
\* error, not a crash, and writes no output file.
C9_NoSurvivorIsFatal ==
    (cmd = "stack" /\ pc \in EndPcs /\ NoSurvivor) => (pc \in FatalPcs /\ ~outWritten)

\* C10: a frame whose alignment residual is above alignThresh gets an error
\* and no projection, its slot becomes nil, and the other frames of the
\* batch are stacked in their original relative order.
C10_RejectedFrameDropped ==
    pool = "post" =>
        /\ \A i \in DOMAIN wk :
              wk[i].resid > AlignT =>
                 /\ wk[i].err
                 /\ wk[i].res = NilPtr
                 /\ ProjAddr(wk[i].arg) \notin DOMAIN heap
                 /\ (InPool /\ wk[i].st \in {"stored", "done"}) => lights[i] = NilPtr
        /\ pc \in {"sb_stack", "sb_return"} =>
              /\ SliceLen(lights) = Cardinality(Survivors)
              /\ \A p \in DOMAIN lights :
                    \E i \in Survivors :
                       /\ wk[i].res = lights[p]
                       /\ Cardinality({ j \in Survivors : j < i }) = p
        /\ pc = "sb_return" =>
              /\ stackLog[Len(stackLog)].batch = b
              /\ stackLog[Len(stackLog)].n = Cardinality(Survivors)
C10_Witness ==
    /\ pc = "sb_return"
    /\ SliceLen(wk) >= 3
    /\ wk[1].resid > AlignT
    /\ SliceLen(lights) = 2

\* the goroutines of PostProcessLights that have run postProcessLight on a
\* frame without stars that is not the reference
ZeroStarWorkers ==
    { i \in DOMAIN wk : /\ wk[i].st \in {"res", "stored", "done"}
                        /\ wk[i].arg # refFrame
                        /\ wk[i].arg \in DOMAIN heap
                        /\ heap[wk[i].arg].stars = 0 }

\* C11, as claimed: with alignment on, a frame other than the reference that
\* has no detected stars gets an error and is dropped from the batch.
C11_ZeroStarFrameDropped ==
    (pool = "post" /\ align # 0) =>
        \A i \in ZeroStarWorkers : wk[i].err /\ wk[i].res = NilPtr

\* C11, amended: with alignment on, a frame other than the reference that has
\* no detected stars is no error: it is neither aligned nor projected, and
\* unless the statistics of the frame cannot be computed (black-point
\* matching or unsharp masking asked for) it gets the identity transform,
\* stays in the batch and is passed to the stacker.
C11_ZeroStarFrameKept ==
    (pool = "post" /\ align # 0) =>
        \A i \in ZeroStarWorkers :
           /\ wk[i].resid = -1
           /\ heap[wk[i].arg].trans # "aligned"
           /\ ~heap[wk[i].arg].projected
           /\ wk[i].err => (normHist = HNMLocBlack \/ usmGain > 0)
           /\ ~wk[i].err =>
                 /\ wk[i].res = wk[i].arg
                 /\ heap[wk[i].arg].trans = "identity"
                 /\ pc \in {"sb_stack", "sb_return"} =>
                       \E p \in DOMAIN lights : lights[p] = wk[i].arg
C11_Witness ==
    /\ pool = "post"
    /\ align # 0
    /\ pc = "sb_return"
    /\ ZeroStarWorkers # {}
    /\ SliceLen(lights) >= 2

\* C12: with alignment on, a reference frame without stars ends the command
\* in PostProcessLights' fatal error before any frame is postprocessed, and
\* nothing is stacked; a nil reference never reaches PostProcessLights.
C12_NoStarReferenceIsFatal ==
    /\ (cmd = "stack" /\ align # 0 /\ refFrame # NilPtr /\ heap[refFrame].stars = 0) =>
          /\ pc \in {"sb_post", "fatal_align"}
          /\ pool = "pre"
          /\ postLog = <<>>
          /\ stackLog = <<>>
          /\ \A a \in DOMAIN heap : heap[a].trans = "unset" /\ ~heap[a].projected
    /\ (cmd = "stack" /\ align # 0 /\ pool = "post") => refFrame # NilPtr
C12_Witness ==
    /\ pc = "fatal_align"
    /\ refFrame # NilPtr
    /\ SliceLen(lights) >= 2

\* C13: with an aligner, the goroutine that postprocesses the reference frame
\* itself neither aligns nor projects it: no residual is taken, so it is never
\* dropped for its residual; its residual stays 0 and its transform is never
\* that of an alignment. It returns an error only when the statistics of the
\* frame cannot be computed (black-point matching or unsharp masking asked
\* for); otherwise the same frame is returned with the identity transform,
\* and it is stacked.
C13_ReferenceNotAligned ==
    (pool = "post" /\ align # 0) =>
        \A i \in DOMAIN wk :
           (wk[i].arg = refFrame /\ wk[i].st \in {"res", "stored", "done"}) =>
              /\ wk[i].resid = -1
              /\ heap[refFrame].trans # "aligned"
              /\ heap[refFrame].residual = 0
              /\ ~heap[refFrame].projected
              /\ ProjAddr(refFrame) \notin DOMAIN heap
              /\ wk[i].err => (normHist = HNMLocBlack \/ usmGain > 0)
              /\ ~wk[i].err =>
                    /\ wk[i].res = refFrame
                    /\ heap[refFrame].trans = "identity"
                    /\ pc \in {"sb_stack", "sb_return"} =>
                          \E p \in DOMAIN lights : lights[p] = refFrame
C13_Witness ==
    /\ pool = "post"
    /\ align # 0
    /\ pc = "sb_return"
    /\ \E i \in DOMAIN wk : wk[i].arg = refFrame
    /\ \E j \in DOMAIN wk : wk[j].res = ProjAddr(wk[j].arg)

\* C14: with -normHist at its default auto, every frame the stack command
\* stacks was matched to the reference frame by location and scale.
C14_AutoMatchesLocScale ==
    (cmd = "stack" /\ normHist = HNMAuto /\ pc = "sb_return") =>
        \A p \in DOMAIN lights : heap[lights[p]].norm = "locscale"

\* C15, as claimed: the first batch runs the sigma search exactly when the
\* configured sigmaLow or sigmaHigh is <= 0, and stacks with the configured
\* bounds when both are > 0.
C15_SearchWhenNotPositive ==
    Len(stackLog) >= 1 =>
        LET e == stackLog[1] IN
        /\ e.search <=> (e.inLow <= 0 \/ e.inHigh <= 0)
        /\ ~e.search => (e.low = e.inLow /\ e.high = e.inHigh)

\* C15, amended: stackBatch runs the sigma search exactly when sigmaLow or
\* sigmaHigh of the stack parameters is < 0, and stacks with the given bounds
\* when both are >= 0, zero included.
C15_SearchWhenNegative ==
    \A k \in 1..Len(stackLog) :
        LET e == stackLog[k] IN
        /\ e.search <=> (e.inLow < 0 \/ e.inHigh < 0)
        /\ ~e.search => (e.low = e.inLow /\ e.high = e.inHigh)
C15_Witness ==
    /\ Len(stackLog) >= 1
    /\ stackLog[1].inLow = 0
    /\ stackLog[1].inHigh > 0
    /\ ~stackLog[1].search
    /\ stackLog[1].low = 0

\* C16: once the sigma search of a batch has written non-negative bounds to
\* the stack parameters, every later batch stacks with exactly these bounds
\* and runs no search.
C16_FoundSigmasReused ==
    \A k \in 1..Len(stackLog) : \A j \in 1..Len(stackLog) :
        (k < j /\ stackLog[k].search /\ stackLog[k].low >= 0 /\ stackLog[k].high >= 0) =>
            /\ ~stackLog[j].search
            /\ stackLog[j].low = stackLog[k].low
            /\ stackLog[j].high = stackLog[k].high
            /\ sigmaLow = stackLog[k].low
            /\ sigmaHigh = stackLog[k].high
C16_Witness ==
    /\ Len(stackLog) >= 2
    /\ stackLog[1].search
    /\ stackLog[1].low = 0
    /\ stackLog[2].batch = 1
    /\ pc = "done"

\* C17: a failed write of an output file ends the command with a fatal
\* error: no command goes on or ends normally after a write that failed.
C17_WriteErrorIsFatal ==
    \A k \in 1..Len(writeLog) : ~writeLog[k].ok => pc \in FatalPcs

\* the handler the usage text and the spec name for a command word
HandlerOf(w) ==
    CASE w = "stats"   -> "CmdStats"
      [] w = "stack"   -> "CmdStack"
      [] w = "rgb"     -> "CmdRgb"
      [] w = "argb"    -> "CmdLrgb(false)"
      [] w = "lrgb"    -> "CmdLrgb(true)"
      [] w = "serve"   -> "CmdServe"
      [] w = "legal"   -> "CmdLegal"
      [] w = "version" -> "Version"
      [] w = "help"    -> "Usage"

\* C18: main calls for every command word the handler of that word, and
\* gives the unknown-command message only for a word that is no command.
C18_EveryWordItsHandler ==
    handler # NoHandler =>
        /\ cmd \in CommandWords => handler = HandlerOf(cmd)
        /\ handler = "Unknown" => cmd \notin CommandWords

\* the batch size of parallelism p: the available frames less p and the
\* calibration frames, less 2 if that gives more than one batch
BatchSizeFor(p) ==
    LET fit == availableFrames - p - CalibrationSlots IN
    IF fit >= 1 /\ numFrames > fit THEN fit - 2 ELSE fit
\* the parallelism values with a batch size of at least 2 and at least p
ViableParallelism == { p \in 1..cpu : BatchSizeFor(p) >= 2 /\ BatchSizeFor(p) >= p }

\* C19: PrepareBatches goes on with the largest parallelism in 1..cpuCount
\* whose batch size is >= 2 and >= p, and it ends in its fatal error exactly
\* when there is none.
C19_LargestViableParallelism ==
    /\ pc = "fatal_pb" => ViableParallelism = {}
    /\ (pc \in {"pb_even", "pb_perm"} \/ PBReturned) =>
          /\ imageLevelParallelism \in ViableParallelism
          /\ \A p \in ViableParallelism : p <= imageLevelParallelism
C19_Witness ==
    /\ pc = "pb_perm"
    /\ cpu = 3
    /\ imageLevelParallelism = 2
    /\ numBatches > 1

\* C20: the ids PrepareBatches returns are a permutation of 0..N-1; with more
\* than one batch the ids of every batch are in ascending order, with one
\* batch they are 0,1,..,N-1.
C20_IdsSortedPermutation ==
    PBReturned =>
        /\ DOMAIN overallIDs = 0..(numFrames - 1)
        /\ { overallIDs[i] : i \in DOMAIN overallIDs } = 0..(numFrames - 1)
        /\ numBatches > 1 =>
              \A bb \in 0..(numBatches - 1) :
                 \A i, j \in BatchStartOffset(bb, batchSize)..(BatchEndOffset(bb, batchSize, numFrames) - 1) :
                    i < j => overallIDs[i] < overallIDs[j]
        /\ numBatches <= 1 => \A i \in DOMAIN overallIDs : overallIDs[i] = i
C20_Witness ==
    /\ PBReturned
    /\ numBatches > 1
    /\ numFrames >= 5
    /\ overallIDs[0] > overallIDs[batchSize]

\* a step of the loop that evens out the last batch leaves numBatches alone
\* and does not take batchSize*numBatches from N or more to less than N
EvenOutKeeps ==
    pc \in {"pb_check", "pb_even"} =>
        /\ numBatches' = numBatches
        /\ batchSize * numBatches >= numFrames => batchSize' * numBatches' >= numFrames

\* C21: when the loop that evens out the last batch has ended, the batch size
\* cannot be lowered further, (batchSize-1)*numBatches < N; the loop leaves
\* numBatches alone and never takes batchSize*numBatches from N or more to
\* less than N.
C21_EvenedOut ==
    /\ []((pc = "pb_perm" \/ PBReturned) => (batchSize - 1) * numBatches < numFrames)
    /\ [][EvenOutKeeps]_vars
C21_Witness ==
    /\ pc = "pb_even"
    /\ numFrames >= 2
    /\ batchSize * numBatches >= numFrames
    /\ (batchSize - 1) * numBatches < numFrames

\* C22, as claimed: the batch size and parallelism PrepareBatches returns
\* satisfy batchSize >= 2 and batchSize >= imageLevelParallelism.
C22_ReturnedStillAccepted ==
    PBReturned => (batchSize >= 2 /\ batchSize >= imageLevelParallelism)

\* C22, amended: PrepareBatches returns a parallelism >= 1 and the batch size
\* min(accepted size, ceil(N/numBatches)) >= 1; the returned size is below 2
\* exactly when N = 1, and below the parallelism only if it is
\* ceil(N/numBatches).
C22_ReturnedEvenedOut ==
    PBReturned =>
        /\ imageLevelParallelism >= 1
        /\ batchSize >= 1
        /\ batchSize = Min(BatchSizeFor(imageLevelParallelism),
                           CeilDiv(numFrames, numBatches))
        /\ batchSize < 2 <=> numFrames = 1
        /\ batchSize < imageLevelParallelism =>
               batchSize = CeilDiv(numFrames, numBatches)
C22_Witness ==
    /\ PBReturned
    /\ numFrames >= 2
    /\ batchSize >= 2
    /\ batchSize < imageLevelParallelism

\* C23: for every frame count N >= 0, every budget and every dark and flat,
\* PrepareBatches ends: it returns or it fails.
C23_PrepareBatchesEnds ==
    <>(PBReturned \/ pc \in {"fatal_pb", "panic_index"})

\* what was done to the stack, without the weights
OpsDone == [k \in 1..Len(stackOps) |-> <<stackOps[k].op, stackOps[k].batch>>]
\* StackIncremental on the stacks of batches 0..n-1, in this order
Incrementals(n) == [k \in 1..n |-> <<"StackIncremental", k - 1>>]
\* the loop of CmdStack has ended and the output file was written, or failed to be
PastWrite == PBReturned /\ pc \in {"done", "fatal_write"}

\* C27: with more than one batch StackIncremental is applied once per batch,
\* in batch order, and StackIncrementalFinalize once, after the last batch
\* and before the output file is written; with one batch neither is applied
\* and the output is the batch stack itself.
C27_IncrementalOncePerBatch ==
    PBReturned =>
        /\ (numBatches > 1 /\ ~PastWrite) => OpsDone = Incrementals(b)
        /\ (numBatches > 1 /\ PastWrite) =>
               OpsDone = Incrementals(numBatches)
                         \o <<(<<"StackIncrementalFinalize", numBatches>>),
                              (<<"WriteFile", numBatches>>)>>
        /\ (numBatches = 1 /\ ~PastWrite) => OpsDone = [k \in 1..b |-> <<"stack=batch", 0>>]
        /\ (numBatches = 1 /\ PastWrite) =>
               OpsDone = <<(<<"stack=batch", 0>>), (<<"WriteFile", 1>>)>>
C27_Witness ==
    /\ PastWrite
    /\ numBatches = 2
    /\ Len(stackOps) = 4

\* the entry of stackLog for batch k: the call of the stacker
StackCallOf(k) == CHOOSE e \in { stackLog[j] : j \in 1..Len(stackLog) } : e.batch = k
\* the sum of the weights of the first n operations on the stack
RECURSIVE WeightSum(_)
WeightSum(n) ==
    IF n = 0 THEN 0
    ELSE WeightSum(n - 1)
         + (IF stackOps[n].op = "StackIncremental" THEN StackCallOf(stackOps[n].batch).n ELSE 0)

\* C28: the weight CmdStack gives StackIncremental for a batch, and adds to
\* the total used at finalisation, is the number of frames that were combined
\* in that batch.
C28_WeightIsFramesCombined ==
    /\ \A k \in 1..Len(stackOps) :
          stackOps[k].op = "StackIncremental" =>
             stackOps[k].weight = StackCallOf(stackOps[k].batch).n
    /\ numBatches > 1 => stackFrames = WeightSum(Len(stackOps))

\* the positions of operation op in the operations of the frame
OpAt(c, op) == { k \in 1..Len(ppLight[c].ops) : ppLight[c].ops[k] = op }

\* C29: when both debayering and bad-pixel repair are enabled, PreProcessLight
\* repairs the bad pixels before it debayers; it never debayers first and
\* repairs afterwards.
C29_RepairBeforeDebayer ==
    \A c \in DOMAIN ppLight :
       \A d \in OpAt(c, "debayer") : \A r \in OpAt(c, "badpixels") : r < d

\* C30: whenever PreProcessLight returns a frame, its statistics and its
\* star list were computed after the last operation that changed its pixels.
C30_StatsAndStarsCurrent ==
    \A c \in DOMAIN ppPc :
       ppPc[c] = "return" =>
          (ppLight[c].statsAt = ppLight[c].pix /\ ppLight[c].starsAt = ppLight[c].pix)

\* the goroutines of PostProcessLights whose frame got an error
Failed == { i \in DOMAIN wk : wk[i].err }
\* PostProcessLights has returned to CmdRgb or CmdLrgb
PostReturned ==
    /\ cmd \in RgbCommands
    /\ pool = "post"
    /\ pc \in {"rgb_check", "fatal_rgb", "fatal_write", "done"}

\* C24: PostProcessLights returns numErrors equal to the number of frames
\* whose postprocessing returned an error, for every interleaving of its
\* goroutines; CmdRgb and CmdLrgb abort whenever a channel has failed.
C24_NumErrorsCountsFailures ==
    PostReturned =>
        /\ numErrors = Cardinality(Failed)
        /\ Failed # {} => pc \in {"rgb_check", "fatal_rgb"}

\* postProcessLight reads histoRef.Stats and changes the pixels and the
\* statistics of its frame
Normalizes == normHist \in {HNMLocScale, HNMLocBlack}
\* the goroutines that have normalized the reference frame of this call
RefWriters ==
    { i \in DOMAIN wk : wk[i].arg = CurPost.histoRef /\ wk[i].st \notin {"idle", "go"} }
\* the goroutines that have yet to read the reference frame
RefReaders == { j \in DOMAIN wk : wk[j].st \in {"idle", "go"} }

\* C25: while the goroutines of PostProcessLights run, the reference frame
\* is only read: no goroutine has changed its pixels or statistics while
\* another has yet to read them, the one of the reference frame included.
C25_ReferenceOnlyRead ==
    (pool = "post" /\ InPool /\ Normalizes) => (RefWriters = {} \/ RefReaders = {})

\* C26: with a semaphore of capacity 1 or more, PreProcessLights,
\* PostProcessLights and CmdStats each return in the end: the launch loop
\* does not wait for a slot for ever and the wait loop completes.
C26_PoolsReturn ==
    (InPool /\ PoolCap >= 1) ~> (pc \in {"sb_noise", "sb_compact", "done"})
C26_Witness ==
    /\ pool = "post"
    /\ pc = "drain"
    /\ PoolLen > PoolCap
    /\ ~CanSend(sem, PoolCap)
    /\ drain < PoolCap

\* the light of goroutine i differs in its axes from the dark, from the flat
DarkDiffers(i) == darkF # NoImage /\ naxisn[wk[i].fileName] # darkF
FlatDiffers(i) == flatF # NoImage /\ naxisn[wk[i].fileName] # flatF
\* PreProcessLights has returned to stackBatch
PreReturned == pool = "pre" /\ pc = "sb_noise"

\* C31: when the axes of a light differ from those of the dark or of the
\* flat, PreProcessLight does not apply the failing calibration step and
\* returns an error and no frame; in PreProcessLights the slot of that frame
\* stays nil, and when PreProcessLights returns every other goroutine has run
\* to its end and every frame that was returned is in its slot.
C31_SizeMismatchDropsFrame ==
    pool = "pre" =>
      \A i \in DOMAIN wk :
        (wk[i].st # "idle" /\ (DarkDiffers(i) \/ FlatDiffers(i))) =>
          /\ wk[i].st = "run" =>
                /\ ppPc[i] # "return"
                /\ DarkDiffers(i) => OpAt(i, "dark") = {}
                /\ FlatDiffers(i) => OpAt(i, "flat") = {}
          /\ wk[i].st \in {"res", "stored", "done"} => wk[i].err /\ wk[i].res = NilPtr
          /\ lights[i] = NilPtr
          /\ PreReturned =>
                \A j \in DOMAIN wk :
                   /\ wk[j].st = "done"
                   /\ ~wk[j].err => lights[j] = wk[j].res /\ lights[j] # NilPtr
\* PreProcessLights has returned; a light of another size than the flat is
\* dropped and another frame is in its slot
C31_Witness ==
    /\ PreReturned
    /\ \E i, j \in DOMAIN wk :
          /\ FlatDiffers(i)
          /\ lights[i] = NilPtr
          /\ lights[j] # NilPtr

\* the value of the float32 w lies in [1/5, 1]
InFifthToOne(w) == w.kind = "num" /\ w.num <= w.den /\ 5 * w.num >= w.den
\* the value of the float32 w is num/den
WeightIs(w, num, den) == w.kind = "num" /\ w.num * den = w.den * num
\* the weights are prepared
WeightsDone == wPc = "done"

\* C32: in noise weighted stacking minNoise and maxNoise are the smallest
\* and the largest of the noise values the weights are taken from, every
\* weight lies in [1/5, 1], a least noisy frame has weight 1 and a noisiest
\* frame has weight 1/5.
C32_NoiseWeightsInRange ==
    WeightsDone =>
      /\ \A i \in DOMAIN wNoise : minNoise <= wNoise[i] /\ wNoise[i] <= maxNoise
      /\ \E i \in DOMAIN wNoise : wNoise[i] = minNoise
      /\ \E i \in DOMAIN wNoise : wNoise[i] = maxNoise
      /\ \A i \in DOMAIN weights :
            /\ InFifthToOne(weights[i])
            /\ wNoise[i] = minNoise => WeightIs(weights[i], 1, 1)
            /\ wNoise[i] = maxNoise => WeightIs(weights[i], 1, 5)

\* the frames of the list given to SelectReferenceFrame: the indices that are not nil
SelFrames == { i \in DOMAIN selLights : selLights[i] # NilPtr }
\* the score of the frame at index i
SelScore(i) == Score(selHeap[selLights[i]])

\* C33: SelectReferenceFrame returns nil exactly when every entry of the
\* list is nil; otherwise it returns the frame of the highest score, stars
\* by HFR or 0 without stars or with HFR 0, and of the frames of that score
\* the earliest in the list.
C33_BestEarliestFrame ==
    selPc = "returned" =>
      /\ selRef = NilPtr <=> SelFrames = {}
      /\ selRef # NilPtr =>
            \E k \in SelFrames :
               /\ selRef = selLights[k]
               /\ \A j \in SelFrames : ~ScoreGreater(SelScore(j), SelScore(k))
               /\ \A j \in SelFrames : j < k => ScoreGreater(SelScore(k), SelScore(j))
\* a list with a nil, a frame without stars, and two frames of the highest
\* score after it: the first of the two is returned
C33_Witness ==
    /\ selPc = "returned"
    /\ SliceLen(selLights) >= 3
    /\ \E i \in DOMAIN selLights : selLights[i] = NilPtr
    /\ \E j, k \in SelFrames :
          /\ j < k
          /\ selRef = selLights[j]
          /\ SelScore(j) # <<0, 1>>
          /\ ~ScoreGreater(SelScore(j), SelScore(k))

\* C34: in serve mode a GET of the stack parameters, and likewise of the
\* preprocessing parameters, returns the value of the last successful POST to
\* that endpoint, or the startup value if there was none, whatever requests
\* came in between, POST /api/v1/stack/run included.
C34_GetReturnsLastPost ==
    srvReply.endpoint # "none" => srvReply.value = srvReply.posted

\* EnhanceColors has returned
AfterEnhanceColors ==
    colPc \in {"tc_enter", "tc_loop", "tc_mid", "tc_gamma", "tc_pp", "tc_black", "tc_back",
               "write", "done"}
\* the conversion c is in the history of conversions
Converted(c) == \E k \in 1..Len(convLog) : convLog[k] = c

\* C35: EnhanceColors applies AdjustChromaForHues exactly when chromaBy is
\* not 1, whatever the other color parameters are: 0 multiplies the chroma
\* like every other value.
C35_ChromaByAppliedUnlessOne ==
    AfterEnhanceColors => ("AdjustChromaForHues" \in applied <=> cP.chromaBy # 1)

\* every color parameter has its neutral value
AllNeutral ==
    /\ (cP.neutSigmaLow < 0 \/ cP.neutSigmaHigh < 0)
    /\ cP.chromaGamma = 1
    /\ cP.chromaBy = 1
    /\ cP.rotBy = 0
    /\ cP.scnr = 0

\* C36: with every color parameter at its neutral value EnhanceColors
\* leaves the image untouched: it does not convert to HSL and back.
C36_NeutralColorsNoConversion ==
    (AfterEnhanceColors /\ AllNeutral) =>
        ~Converted("RGBToCIEHSL") /\ ~Converted("CIEHSLToRGB")

\* the conversion back that matches a conversion
BackOf(c) == IF c = "ToXyy" THEN "XyyToRGB" ELSE "CIEHSLToRGB"
\* the space a conversion leads to
SpaceOf(c) == IF c = "ToXyy" THEN "xyY" ELSE "HSL"
\* CombineLrgb, EnhanceColors or EnhanceToneCurve is entered or has returned
AtFunctionBoundary == colPc \in {"balance", "lrgb", "ec_enter", "tc_enter", "write", "done"}

\* C37: CombineLrgb, EnhanceColors and EnhanceToneCurve are entered with
\* the image in linear RGB and return with it in linear RGB: every
\* conversion to xyY or HSL is made on RGB data and is followed, on every
\* path that does not end fatally, by its conversion back and no other; the
\* image that is written is linear RGB.
C37_ConversionsMatched ==
    /\ space # "none"
    /\ \A k \in 1..Len(convLog) :
          IF k % 2 = 1 THEN convLog[k] \in {"ToXyy", "RGBToCIEHSL"}
          ELSE convLog[k] = BackOf(convLog[k - 1])
    /\ space = IF Len(convLog) % 2 = 1 THEN SpaceOf(convLog[Len(convLog)]) ELSE "RGB"
    /\ AtFunctionBoundary => Len(convLog) % 2 = 0 /\ space = "RGB"
\* an image that was combined with its luminance in xyY, enhanced in HSL,
\* given its tone curve in xyY, and written
C37_Witness ==
    /\ colPc = "done"
    /\ convLog = <<"ToXyy", "XyyToRGB", "RGBToCIEHSL", "CIEHSLToRGB", "ToXyy", "XyyToRGB">>

\* the tone steps that follow the automatic curves loop have run
LaterToneStepsRun ==
    /\ tcP.midtone # 0 => "ApplyMidtonesToChannel" \in applied
    /\ tcP.gamma # 1 => "ApplyGammaToChannel" \in applied
    /\ tcP.ppGamma # 1 => "ApplyPartialGammaToChannel" \in applied
\* the step in which the loop logs that it did not converge
CapReached == tcWarned' /\ ~tcWarned

\* C38: the automatic curves loop of EnhanceToneCurve applies at most 30
\* adjustments and then ends, for every input; at the cap it only logs a
\* warning and goes on to the later tone steps, which run, as does the
\* conversion back to RGB, unless one of them ends the process.
C38_CurvesLoopCapped ==
    /\ [](tcAdjusts <= 30)
    /\ (colPc = "tc_loop") ~> (colPc # "tc_loop")
    /\ [][CapReached => (tcAdjusts = 30 /\ colPc' = "tc_mid" /\ space' = "xyY")]_vars
    /\ tcWarned ~> (colPc \in {"done", "fatal"})
    /\ []((tcWarned /\ colPc \in {"write", "done"}) =>
             /\ LaterToneStepsRun
             /\ convLog[Len(convLog)] = "XyyToRGB"
             /\ space = "RGB")
\* the loop has applied 30 adjustments and warned, the gamma step has run
\* after it, and the image was written
C38_Witness ==
    /\ tcWarned
    /\ tcAdjusts = 30
    /\ tcP.gamma # 1
    /\ colPc = "done"
    /\ space = "RGB"

\* C39: after any sequence of acquire and release calls on the float32
\* pool, every array returned by an acquire for length n has length n: an
\* array that was released is kept under its own length and handed out again
\* for that length only.
C39_AcquiredHasLengthAsked ==
    /\ \A g \in Goroutines :
          gor[g].held # NoBuf => gor[g].held.len = gor[g].held.asked
    /\ \A q \in 1..Len(syncPools) : \A k \in 1..Len(syncPools[q].items) :
          syncPools[q].items[k].len = syncPools[q].size
\* a goroutine holds an array of the largest length that was released
\* before, while the pool of another length exists as well
C39_Witness ==
    /\ \E g \in Goroutines :
          gor[g].held.reused /\ gor[g].held.len = MaxBufLen /\ gor[g].pc = "idle"
    /\ \A n \in BufLens : poolFloat32[n] # NilPool

\* C40: for every length all goroutines get the same pool object from
\* getSizedPoolFloat32: at most one pool is ever stored in the map per
\* length, also when goroutines ask for a new length at the same time, and
\* no released array lies in a pool that later acquires do not reach.
C40_OnePoolPerLength ==
    /\ \A n \in BufLens : installs[n] <= 1
    /\ \A g, h \in Goroutines :
          (gor[g].pc = "use" /\ gor[h].pc = "use" /\ gor[g].size = gor[h].size)
             => gor[g].pool = gor[h].pool
    /\ \A q \in 1..Len(syncPools) :
          syncPools[q].items # <<>> => poolFloat32[syncPools[q].size] = q

====
